---- MODULE Spec2Model ----
(***************************************************************************)
(* fpb-aml-mapper: the two converters between the FPB.JS graph form (JSON) *)
(* and the AutomationML tree form (CAEX), as state machines.               *)
(*                                                                         *)
(*   amlToJson  (src/src/aml-to-json.js)  tree form  -> graph form         *)
(*   jsonToAml  (src/src/json-to-aml.js)  graph form -> tree form          *)
(*                                                                         *)
(* Modelling conventions.                                                  *)
(*  - Identifiers are integers.  An authored identifier (a uniqueIdent of  *)
(*    the tree form, an id of the graph form) is a positive number; 0 is   *)
(*    every falsy value of the source ('' , null, undefined); generateId() *)
(*    and uuidv4() return the negative numbers, never twice the same.      *)
(*  - An XML element is a record; a repeated child element (isArray of     *)
(*    PARSER_OPTIONS) is a sequence; an attribute block that the source    *)
(*    looks up with getAttr is a sequence of length 0 (absent) or 1.       *)
(*  - Names, characteristics and the string fields of the identity block   *)
(*    other than uniqueIdent are copied through by the source and are not  *)
(*    part of the model.                                                   *)
(***************************************************************************)
EXTENDS Integers, Sequences, FiniteSets, TLC

VARIABLES
    pc,             \* where the running conversion stands
    json,           \* the graph-form document jsonToAml reads
    build,          \* the activations of buildProcess, innermost last
    uuid,           \* number of identifiers uuidv4 has handed out
    aml,            \* the tree-form document: jsonToAml writes, amlToJson reads
    stack,          \* the activations of parseProcess, innermost last
    processEntries, \* amlToJson: const processEntries = []
    idCounter,      \* number of identifiers generateId has handed out
    ret,            \* the value the last finished parseProcess returned
    out,            \* what amlToJson returned: <<>> until it returns
    res,            \* the response of POST /api/to-json: status 0 until sent
    second          \* a second conversion of json, waiting: its pc, build and aml

vars == <<pc, json, build, uuid, aml, stack, processEntries, idCounter, ret, out, res, second>>

\* no second conversion
Idle == [pc |-> "idle", build |-> << >>, aml |-> << >>]

\* what the steps of amlToJson leave alone
encoder == <<json, build, uuid, res, second>>

(***************************************************************************)
(* Bounds of the model.                                                    *)
(***************************************************************************)
\* most InternalLink records of one process container (wiring documents)
MaxLinks == 2
\* most object elements of one document, over all nesting levels (nesting documents)
MaxElems == 3

(***************************************************************************)
(* Generic helpers.                                                        *)
(***************************************************************************)
Range(s) == { s[i] : i \in DOMAIN s }

SeqUpTo(S, n) == UNION { [1..m -> S] : m \in 0..n }

\* Array.prototype.find as an index: the first position satisfying P, 0 if none
FindIndex(s, P(_)) ==
    IF \E i \in DOMAIN s : P(s[i])
    THEN CHOOSE i \in DOMAIN s : P(s[i]) /\ \A j \in 1..(i-1) : ~P(s[j])
    ELSE 0

\* Array.prototype.includes
Includes(s, v) == \E i \in DOMAIN s : s[i] = v

\* Array.prototype.map
MapSeq(s, F(_)) == [i \in DOMAIN s |-> F(s[i])]

(***************************************************************************)
(* mappings.js                                                             *)
(***************************************************************************)
ELEMENT_TO_SUC ==
    ("fpb:Product"           :> "FPD_SystemUnitClassLib/FPD_Product") @@
    ("fpb:Energy"            :> "FPD_SystemUnitClassLib/FPD_Energy") @@
    ("fpb:Information"       :> "FPD_SystemUnitClassLib/FPD_Information") @@
    ("fpb:ProcessOperator"   :> "FPD_SystemUnitClassLib/FPD_ProcessOperator") @@
    ("fpb:TechnicalResource" :> "FPD_SystemUnitClassLib/FPD_TechnicalResource") @@
    ("fpb:SystemLimit"       :> "FPD_SystemUnitClassLib/FPD_SystemLimit") @@
    ("fpb:Process"           :> "FPD_SystemUnitClassLib/FPD_Process")

\* Object.fromEntries(Object.entries(ELEMENT_TO_SUC).map(([k, v]) => [v, k]))
SUC_TO_ELEMENT ==
    [ s \in Range(ELEMENT_TO_SUC) |->
        CHOOSE t \in DOMAIN ELEMENT_TO_SUC : ELEMENT_TO_SUC[t] = s ]

FLOW_TO_INTERFACE ==
    ("fpb:Flow" :>
        [out |-> "FPD_InterfaceClassLib/FPD_FlowOut",
         in  |-> "FPD_InterfaceClassLib/FPD_FlowIn"]) @@
    ("fpb:ParallelFlow" :>
        [out |-> "FPD_InterfaceClassLib/FPD_ParallelFlowOut",
         in  |-> "FPD_InterfaceClassLib/FPD_ParallelFlowIn"]) @@
    ("fpb:AlternativeFlow" :>
        [out |-> "FPD_InterfaceClassLib/FPD_AlternativeFlowOut",
         in  |-> "FPD_InterfaceClassLib/FPD_AlternativeFlowIn"]) @@
    ("fpb:Usage" :>
        [out |-> "FPD_InterfaceClassLib/FPD_Usage",
         in  |-> "FPD_InterfaceClassLib/FPD_Usage"])

\* Object.entries(FLOW_TO_INTERFACE): insertion order
FlowTypeOrder == <<"fpb:Flow", "fpb:ParallelFlow", "fpb:AlternativeFlow", "fpb:Usage">>

\* the pass without the test of line 31: the entry of paths.in is written
\* whatever paths.out is
InterfaceEntriesBothWays(tbl, flowType) ==
    LET paths == FLOW_TO_INTERFACE[flowType]
    IN  (paths.in :> [flowType |-> flowType, direction |-> "in"]) @@
        (paths.out :> [flowType |-> flowType, direction |-> "out"]) @@ tbl

\* One pass of the loop that fills INTERFACE_TO_FLOW: an assignment to a key
\* that is already present overwrites it.
InterfaceEntries(tbl, flowType) ==
    LET paths   == FLOW_TO_INTERFACE[flowType]
        withOut == (paths.out :> [flowType |-> flowType, direction |-> "out"]) @@ tbl
    IN  IF paths.in # paths.out
        THEN (paths.in :> [flowType |-> flowType, direction |-> "in"]) @@ withOut
        ELSE withOut

RECURSIVE InterfaceTable(_)
InterfaceTable(n) ==
    IF n = 0 THEN << >>
    ELSE InterfaceEntries(InterfaceTable(n - 1), FlowTypeOrder[n])

INTERFACE_TO_FLOW == InterfaceTable(Len(FlowTypeOrder))

OBJECT_TYPES ==
    {"fpb:Product", "fpb:Energy", "fpb:Information",
     "fpb:ProcessOperator", "fpb:TechnicalResource", "fpb:SystemLimit"}

CONNECTION_TYPES ==
    {"fpb:Flow", "fpb:ParallelFlow", "fpb:AlternativeFlow", "fpb:Usage"}

\* ['fpb:Product', 'fpb:Energy', 'fpb:Information'], the state kinds
StateTypes == {"fpb:Product", "fpb:Energy", "fpb:Information"}

SUC_Process     == ELEMENT_TO_SUC["fpb:Process"]
SUC_SystemLimit == ELEMENT_TO_SUC["fpb:SystemLimit"]

(***************************************************************************)
(* aml-to-json.js: attribute parsers.                                      *)
(*                                                                         *)
(* The text of a numeric attribute is a record [k, v]: k = "num" for text  *)
(* that parseFloat reads as the number v, "text" for any other text and    *)
(* "none" for a slot without a Value child (getAttrValue returns '').  A   *)
(* JavaScript number is [nan, v].                                          *)
(***************************************************************************)
Num(v) == [nan |-> FALSE, v |-> v]
NaN    == [nan |-> TRUE,  v |-> 0]

parseFloat(txt) == IF txt.k = "num" THEN Num(txt.v) ELSE NaN

\* the truthiness of a JavaScript number: 0 and NaN are falsy
Truthy(num) == ~num.nan /\ num.v # 0

\* a || 0
OrZero(num) == IF Truthy(num) THEN num ELSE Num(0)

generateId(n) == -(n + 1)

\* elements.find(ie => ie['@_RefBaseSystemUnitPath'] === sucPath), as an index
findByRefSUC(elements, sucPath) ==
    FindIndex(elements, LAMBDA ie : ie.RefBaseSystemUnitPath = sucPath)

\* uid || null, with null and '' both 0
parseIdentificationId(ie) ==
    IF Len(ie.Identification) = 0 THEN 0
    ELSE ie.Identification[1].uniqueIdent

\* null (the empty sequence) or the identity block
parseIdentification(ie) ==
    IF Len(ie.Identification) = 0 THEN << >>
    ELSE << [type |-> "fpb:Identification",
             uniqueIdent |-> ie.Identification[1].uniqueIdent] >>

\* null (the empty sequence) or << [x, y, width, height] >>
parseVisualAttr(ie) ==
    IF Len(ie.Visual) = 0 THEN << >>
    ELSE LET visual == ie.Visual[1]
             pos    == visual.position
             x      == IF Len(pos) > 0 THEN parseFloat(pos[1].x) ELSE Num(0)
             y      == IF Len(pos) > 0 THEN parseFloat(pos[1].y) ELSE Num(0)
             width  == OrZero(parseFloat(visual.width))
             height == OrZero(parseFloat(visual.height))
         IN  IF ~Truthy(width) /\ ~Truthy(height) /\ ~Truthy(x) /\ ~Truthy(y)
             THEN << >>
             ELSE << [x |-> x, y |-> y, width |-> width, height |-> height] >>

\* null (the empty sequence) or << [x, y] >>
parsePortCoordinate(extIf) ==
    IF Len(extIf.PortCoordinate) = 0 THEN << >>
    ELSE LET x == parseFloat(extIf.PortCoordinate[1].x)
             y == parseFloat(extIf.PortCoordinate[1].y)
         IN  IF x.nan \/ y.nan THEN << >> ELSE << [x |-> x, y |-> y] >>

\* the array as it is, in document order
DocumentOrder(s) == s

\* waypoints.sort((a, b) => a.index - b.index): a stable insertion sort
RECURSIVE SortByIndex(_)
SortByIndex(s) ==
    IF Len(s) <= 1 THEN s
    ELSE LET rest   == SortByIndex(SubSeq(s, 1, Len(s) - 1))
             last   == s[Len(s)]
             before == SelectSeq(rest, LAMBDA w : w.index <= last.index)
             after  == SelectSeq(rest, LAMBDA w : w.index > last.index)
         IN  before \o <<last>> \o after

\* The FPD_Waypoint* attributes of a port: [index, position], the index being
\* the numeric suffix of the attribute's name (bare name = 0).
parseWaypoints(extIf) ==
    LET usable == SelectSeq(extIf.Waypoints, LAMBDA a :
                      /\ Len(a.position) > 0
                      /\ ~parseFloat(a.position[1].x).nan
                      /\ ~parseFloat(a.position[1].y).nan)
        parsed == MapSeq(usable, LAMBDA a :
                      [index |-> a.index,
                       x |-> parseFloat(a.position[1].x),
                       y |-> parseFloat(a.position[1].y)])
    IN  MapSeq(SortByIndex(parsed), LAMBDA w : [x |-> w.x, y |-> w.y])

buildWaypoints(outSide, inSide) ==
    LET first  == IF Len(outSide.portCoordinate) > 0
                  THEN << [original |-> outSide.portCoordinate[1],
                           x |-> outSide.portCoordinate[1].x,
                           y |-> outSide.portCoordinate[1].y] >>
                  ELSE << >>
        middle == MapSeq(outSide.waypoints, LAMBDA wp : [x |-> wp.x, y |-> wp.y])
        last   == IF Len(inSide.portCoordinate) > 0
                  THEN << [original |-> inSide.portCoordinate[1],
                           x |-> inSide.portCoordinate[1].x,
                           y |-> inSide.portCoordinate[1].y] >>
                  ELSE << >>
    IN  first \o middle \o last

(***************************************************************************)
(* aml-to-json.js: parseProcess.                                           *)
(*                                                                         *)
(* One activation of parseProcess is a record of its local variables; i is *)
(* the position in objectIEs of the next object element, k the position of *)
(* the next InternalLink, and pending the elemId of the object element     *)
(* whose nested Process is being parsed by the activation above (0: none). *)
(***************************************************************************)
HasField(r, f) == f \in DOMAIN r

\* children.filter(ie => suc && SUC_TO_ELEMENT[suc] && suc !== '.../FPD_Process')
ObjectIEs(children) ==
    SelectSeq(children, LAMBDA ie :
        /\ ie.RefBaseSystemUnitPath \in DOMAIN SUC_TO_ELEMENT
        /\ ie.RefBaseSystemUnitPath # SUC_Process)

\* an assignment that takes a fresh id for every process
ProcessIdFresh(parentProcessId, n) == generateId(n)

\* Line 111: const processId = parentProcessId || generateId()
ProcessId(parentProcessId, n) ==
    IF parentProcessId # 0 THEN parentProcessId ELSE generateId(n)

\* Lines 64-111: the locals of a fresh activation, the SystemLimit record and
\* the process id.  n is idCounter at the call; the result carries the new one.
EnterProcess(processIE, parentProcessId, n) ==
    LET children      == processIE.InternalElement
        slIdx         == findByRefSUC(children, SUC_SystemLimit)
        systemLimitId == IF slIdx # 0 THEN generateId(n) ELSE 0
        n1            == IF slIdx # 0 THEN n + 1 ELSE n
        slVisual      == IF slIdx # 0 THEN parseVisualAttr(children[slIdx]) ELSE << >>
        processId     == ProcessId(parentProcessId, n1)
        n2            == IF parentProcessId # 0 THEN n1 ELSE n1 + 1
    IN  [frame |->
            [objectIEs        |-> ObjectIEs(children),
             links            |-> processIE.InternalLink,
             parentProcessId  |-> parentProcessId,
             systemLimitId    |-> systemLimitId,
             processId        |-> processId,
             interfaceMap     |-> << >>,
             elementDataInformation |->
                 IF slIdx # 0
                 THEN << [type |-> "fpb:SystemLimit", id |-> systemLimitId,
                          elementsContainer |-> << >>] >>
                 ELSE << >>,
             elementVisualInformation |->
                 IF Len(slVisual) > 0
                 THEN << [id |-> systemLimitId, type |-> "fpb:SystemLimit"]
                              @@ slVisual[1] >>
                 ELSE << >>,
             stateIds             |-> << >>,
             poIds                |-> << >>,
             elementsContainerIds |-> << >>,
             flowDataMap          |-> << >>,
             i       |-> 1,
             k       |-> 1,
             pending |-> 0],
         idCounter |-> n2]

\* Lines 127-140: the ports of one object element entered into interfaceMap;
\* Map.set on a key already present overwrites it.
RECURSIVE RegisterInterfaces(_, _, _)
RegisterInterfaces(interfaceMap, extInterfaces, elemId) ==
    IF Len(extInterfaces) = 0 THEN interfaceMap
    ELSE LET extIf == Head(extInterfaces)
             known == extIf.RefBaseClassPath \in DOMAIN INTERFACE_TO_FLOW
             info  == INTERFACE_TO_FLOW[extIf.RefBaseClassPath]
             entry == [elementId      |-> elemId,
                       direction      |-> info.direction,
                       flowType       |-> info.flowType,
                       portCoordinate |-> parsePortCoordinate(extIf),
                       waypoints      |-> parseWaypoints(extIf)]
         IN  RegisterInterfaces(
                 IF known THEN (extIf.ID :> entry) @@ interfaceMap ELSE interfaceMap,
                 Tail(extInterfaces), elemId)

\* Lines 151-196: the element record, its visual record and the id lists, with
\* decomposedView the id of the nested process or 0.
RecordElement(f, ie, elemId, decomposedView) ==
    LET fpbType  == SUC_TO_ELEMENT[ie.RefBaseSystemUnitPath]
        ident    == parseIdentification(ie)
        base     == [type |-> fpbType, id |-> elemId,
                     incoming |-> << >>, outgoing |-> << >>, isAssignedTo |-> << >>]
        withId   == IF Len(ident) > 0
                    THEN base @@ [identification |-> ident[1]] ELSE base
        elemData == IF decomposedView # 0
                    THEN withId @@ [decomposedView |-> decomposedView] ELSE withId
        visual   == parseVisualAttr(ie)
    IN  [f EXCEPT
            !.elementDataInformation = Append(@, elemData),
            !.elementVisualInformation =
                IF Len(visual) > 0
                THEN Append(@, [id |-> elemId, type |-> fpbType] @@ visual[1])
                ELSE @,
            !.elementsContainerIds = Append(@, elemId),
            !.stateIds = IF fpbType \in StateTypes THEN Append(@, elemId) ELSE @,
            !.poIds = IF fpbType = "fpb:ProcessOperator" THEN Append(@, elemId) ELSE @,
            !.i = @ + 1,
            !.pending = 0]

\* a guard that skips no link
LinkSkippedNever(interfaceMap, link) == FALSE

\* Line 208: if (!sideA || !sideB) continue
LinkSkipped(interfaceMap, link) ==
    \/ link.RefPartnerSideA \notin DOMAIN interfaceMap
    \/ link.RefPartnerSideB \notin DOMAIN interfaceMap

\* a resolution that takes side A for the source whatever its direction
OutSideAlwaysA(sideA, sideB) == sideA

\* Lines 211-212
OutSide(sideA, sideB) == IF sideA.direction = "out" THEN sideA ELSE sideB
InSide(sideA, sideB)  == IF sideA.direction = "in"  THEN sideA ELSE sideB

\* a record that gives every edge an inTandemWith field
FlowDataAlwaysTandem(flowType, flowId, outSide, inSide) ==
    [type |-> flowType, id |-> flowId,
     sourceRef |-> outSide.elementId, targetRef |-> inSide.elementId,
     inTandemWith |-> << >>]

\* Lines 218-228: inTandemWith exists on ParallelFlow and AlternativeFlow only
FlowData(flowType, flowId, outSide, inSide) ==
    LET base == [type |-> flowType, id |-> flowId,
                 sourceRef |-> outSide.elementId, targetRef |-> inSide.elementId]
    IN  IF flowType # "fpb:Flow" /\ flowType # "fpb:Usage"
        THEN base @@ [inTandemWith |-> << >>]
        ELSE base

\* elementDataInformation.find(e => e.id === id), as an index
FindElem(edi, id) == FindIndex(edi, LAMBDA e : e.id = id)

\* if (!elem.isAssignedTo.includes(id)) elem.isAssignedTo.push(id)
AssignTo(edi, idx, id) ==
    IF Includes(edi[idx].isAssignedTo, id) THEN edi
    ELSE [edi EXCEPT ![idx].isAssignedTo = Append(@, id)]

\* Lines 257-263: a state that is the source of an edge into an operator
AssignSourceState(edi, src, tgt) ==
    IF /\ src # 0 /\ edi[src].type \in StateTypes
       /\ tgt # 0 /\ edi[tgt].type = "fpb:ProcessOperator"
    THEN AssignTo(edi, src, edi[tgt].id)
    ELSE edi

\* an assignment that also records the target state on the operator
AssignTargetStateBothWays(edi, src, tgt) ==
    IF /\ tgt # 0 /\ edi[tgt].type \in StateTypes
       /\ src # 0 /\ edi[src].type = "fpb:ProcessOperator"
    THEN AssignTo(AssignTo(edi, tgt, edi[src].id), src, edi[tgt].id)
    ELSE edi

\* Lines 264-270: a state that is the target of an edge out of an operator
AssignTargetState(edi, src, tgt) ==
    IF /\ tgt # 0 /\ edi[tgt].type \in StateTypes
       /\ src # 0 /\ edi[src].type = "fpb:ProcessOperator"
    THEN AssignTo(edi, tgt, edi[src].id)
    ELSE edi

\* an assignment that records the target on the source only
AssignUsageOneWay(edi, flowType, src, tgt) ==
    IF flowType = "fpb:Usage" /\ src # 0 /\ tgt # 0
    THEN AssignTo(edi, src, edi[tgt].id)
    ELSE edi

\* Lines 272-281: Usage, both endpoints record each other
AssignUsage(edi, flowType, src, tgt) ==
    IF flowType = "fpb:Usage" /\ src # 0 /\ tgt # 0
    THEN LET one == AssignTo(edi, src, edi[tgt].id)
         IN  AssignTo(one, tgt, one[src].id)
    ELSE edi

\* an update that leaves the outgoing lists alone
PushOutgoingNowhere(edi, src, flowId) == edi

\* Lines 246-251: if (sourceElem) sourceElem.outgoing.push(flowId)
PushOutgoing(edi, src, flowId) ==
    IF src # 0 THEN [edi EXCEPT ![src].outgoing = Append(@, flowId)] ELSE edi

\* Lines 252-254: if (targetElem) targetElem.incoming.push(flowId)
PushIncoming(edi, tgt, flowId) ==
    IF tgt # 0 THEN [edi EXCEPT ![tgt].incoming = Append(@, flowId)] ELSE edi

\* Lines 203-284 for one link that is not skipped; n is idCounter.
BuildFlow(f, link, n) ==
    LET sideA     == f.interfaceMap[link.RefPartnerSideA]
        sideB     == f.interfaceMap[link.RefPartnerSideB]
        outSide   == OutSide(sideA, sideB)
        inSide    == InSide(sideA, sideB)
        flowId    == generateId(n)
        flowType  == outSide.flowType
        flowData  == FlowData(flowType, flowId, outSide, inSide)
        waypoints == buildWaypoints(outSide, inSide)
        edi0      == f.elementDataInformation
        src       == FindElem(edi0, outSide.elementId)
        tgt       == FindElem(edi0, inSide.elementId)
        edi1      == PushOutgoing(edi0, src, flowId)
        edi2      == PushIncoming(edi1, tgt, flowId)
        edi3      == AssignSourceState(edi2, src, tgt)
        edi4      == AssignTargetState(edi3, src, tgt)
        edi5      == AssignUsage(edi4, flowType, src, tgt)
    IN  [f EXCEPT
            !.flowDataMap = Append(@, flowData),
            !.elementVisualInformation =
                IF Len(waypoints) > 0
                THEN Append(@, [id |-> flowId, type |-> flowType, waypoints |-> waypoints])
                ELSE @,
            !.elementDataInformation = edi5,
            !.elementsContainerIds = Append(@, flowId),
            !.k = @ + 1]

(***************************************************************************)
(* Lines 287-302: inTandemWith.  sourceGroups maps a sourceRef to the ids  *)
(* of the flows that have an inTandemWith field and that source, in        *)
(* flowDataMap order.                                                      *)
(***************************************************************************)
SourceGroup(flowDataMap, key) ==
    MapSeq(SelectSeq(flowDataMap, LAMBDA g :
               HasField(g, "inTandemWith") /\ g.sourceRef = key),
           LAMBDA g : g.id)

\* a filter that keeps only the members generated after the flow itself
TandemOthersLater(group, flowId) == SelectSeq(group, LAMBDA id : id < flowId)

\* group.filter(id => id !== flowId)
TandemOthers(group, flowId) == SelectSeq(group, LAMBDA id : id # flowId)

ComputeTandem(flowDataMap) ==
    MapSeq(flowDataMap, LAMBDA flow :
        IF ~HasField(flow, "inTandemWith") THEN flow
        ELSE LET group == SourceGroup(flowDataMap, flow.sourceRef)
             IN  IF Len(group) <= 1 THEN flow
                 ELSE [flow EXCEPT !.inTandemWith = TandemOthers(group, flow.id)])

\* an update that lists the SystemLimit in its own container
UpdateSystemLimitSelfIncluded(edi, systemLimitId, elementsContainerIds) ==
    LET sl == IF systemLimitId # 0 THEN FindElem(edi, systemLimitId) ELSE 0
    IN  IF sl # 0
        THEN [edi EXCEPT ![sl].elementsContainer = <<systemLimitId>> \o elementsContainerIds]
        ELSE edi

\* Lines 310-315: sl.elementsContainer = elementsContainerIds
UpdateSystemLimit(edi, systemLimitId, elementsContainerIds) ==
    LET sl == IF systemLimitId # 0 THEN FindElem(edi, systemLimitId) ELSE 0
    IN  IF sl # 0
        THEN [edi EXCEPT ![sl].elementsContainer = elementsContainerIds]
        ELSE edi

\* Lines 304-345: the finished process entry of an activation
ProcessEntry(f) ==
    LET withFlows == f.elementDataInformation \o ComputeTandem(f.flowDataMap)
        edi       == UpdateSystemLimit(withFlows, f.systemLimitId, f.elementsContainerIds)
        resources == SelectSeq(edi, LAMBDA e : e.type = "fpb:TechnicalResource")
        decomposed == SelectSeq(edi, LAMBDA e :
                          HasField(e, "decomposedView") /\ e.decomposedView # 0)
    IN  [process |->
            [type |-> "fpb:Process",
             id   |-> f.processId,
             elementsContainer |->
                 IF f.systemLimitId # 0
                 THEN <<f.systemLimitId>> \o MapSeq(resources, LAMBDA e : e.id)
                 ELSE << >>,
             isDecomposedProcessOperator |-> f.parentProcessId,
             consistsOfStates            |-> f.stateIds,
             consistsOfSystemLimit       |-> f.systemLimitId,
             consistsOfProcesses |-> MapSeq(decomposed, LAMBDA e : e.decomposedView),
             consistsOfProcessOperator   |-> f.poIds,
             parent                      |-> f.parentProcessId],
         elementDataInformation   |-> edi,
         elementVisualInformation |-> f.elementVisualInformation]

(***************************************************************************)
(* The tree-form documents of the model.                                   *)
(***************************************************************************)
IE(suc, uniqueIdent, ports, children, links) ==
    [RefBaseSystemUnitPath |-> suc,
     Identification    |-> IF uniqueIdent = 0 THEN << >>
                           ELSE << [uniqueIdent |-> uniqueIdent] >>,
     Visual            |-> << >>,
     ExternalInterface |-> ports,
     InternalElement   |-> children,
     InternalLink      |-> links]

Port(id, class) ==
    [ID |-> id, RefBaseClassPath |-> class, PortCoordinate |-> << >>, Waypoints |-> << >>]

Link(a, b) == [RefPartnerSideA |-> a, RefPartnerSideB |-> b]

SystemLimitIE == IE(SUC_SystemLimit, 0, << >>, << >>, << >>)

ProcessIE(hasSL, children, links) ==
    IE(SUC_Process, 0, << >>,
       (IF hasSL THEN <<SystemLimitIE>> ELSE << >>) \o children, links)

Doc(hierarchies) == [InstanceHierarchy |-> hierarchies]

Hierarchy(elements) == [InternalElement |-> elements]

SUC_ProcessOperator   == ELEMENT_TO_SUC["fpb:ProcessOperator"]
SUC_Product           == ELEMENT_TO_SUC["fpb:Product"]
SUC_TechnicalResource == ELEMENT_TO_SUC["fpb:TechnicalResource"]
\* a class path outside the library
SUC_Other             == "FPD_SystemUnitClassLib/Other"
IF_Other              == "FPD_InterfaceClassLib/Other"

\* Wiring documents: one process of two object elements that carry three
\* ports, ids 1..3, between them; 0 is a port id of no port.
Boards ==
    { [a |-> SUC_ProcessOperator,
       aPorts |-> << Port(1, FLOW_TO_INTERFACE["fpb:ParallelFlow"].out),
                     Port(2, FLOW_TO_INTERFACE["fpb:AlternativeFlow"].out) >>,
       b |-> SUC_Product,
       bPorts |-> << Port(3, FLOW_TO_INTERFACE["fpb:ParallelFlow"].in) >>],
      [a |-> SUC_ProcessOperator,
       aPorts |-> << Port(1, FLOW_TO_INTERFACE["fpb:Usage"].out),
                     Port(2, FLOW_TO_INTERFACE["fpb:Flow"].in) >>,
       b |-> SUC_TechnicalResource,
       bPorts |-> << Port(3, FLOW_TO_INTERFACE["fpb:Usage"].in) >>],
      [a |-> SUC_Product,
       aPorts |-> << Port(1, FLOW_TO_INTERFACE["fpb:Flow"].out) >>,
       b |-> SUC_ProcessOperator,
       bPorts |-> << Port(2, FLOW_TO_INTERFACE["fpb:Flow"].in),
                     Port(3, IF_Other) >>],
      [a |-> SUC_Product,
       aPorts |-> << Port(1, FLOW_TO_INTERFACE["fpb:Flow"].in) >>,
       b |-> SUC_ProcessOperator,
       bPorts |-> << Port(2, FLOW_TO_INTERFACE["fpb:Flow"].in),
                     Port(3, FLOW_TO_INTERFACE["fpb:Flow"].out) >>] }

PortRefs == 0..3

\* the uniqueIdent values of the documents; 0: no identity block
UniqueIdents == {0, 1}

LinkRecords == { Link(a, b) : a \in PortRefs, b \in PortRefs }

WiringProcesses ==
    { ProcessIE(TRUE,
                << IE(bd.a, ua, bd.aPorts, << >>, << >>),
                   IE(bd.b, ub, bd.bPorts, << >>, << >>) >>,
                links) :
        bd \in Boards, ua \in UniqueIdents, ub \in UniqueIdents,
        links \in SeqUpTo(LinkRecords, MaxLinks) }

\* Nesting documents: object elements without ports, each with or without a
\* nested Process container, at most MaxElems of them in the document.
Heads == { <<SUC_ProcessOperator, 0>>, <<SUC_ProcessOperator, 1>>, <<SUC_Other, 0>> }

RECURSIVE ForestsOfSize(_)
RECURSIVE TreesOfSize(_)
TreesOfSize(n) ==
    IF n = 1
    THEN { IE(h[1], h[2], << >>, << >>, << >>) : h \in Heads }
         \cup { IE(h[1], h[2], << >>, << ProcessIE(TRUE, << >>, << >>) >>, << >>) :
                  h \in Heads }
    ELSE { IE(h[1], h[2], << >>, << ProcessIE(TRUE, f, << >>) >>, << >>) :
             h \in Heads, f \in ForestsOfSize(n - 1) }

ForestsOfSize(n) ==
    IF n = 0 THEN { << >> }
    ELSE UNION { { <<t>> \o f : t \in TreesOfSize(m), f \in ForestsOfSize(n - m) } :
                 m \in 1..n }

NestingProcesses ==
    { ProcessIE(hasSL, f, << >>) :
        hasSL \in BOOLEAN, f \in UNION { ForestsOfSize(n) : n \in 0..MaxElems } }

\* Attribute documents: one Product with a visual block, and one edge between
\* two ports with coordinates, every numeric slot holding a number, some other
\* text, or no value.
NumTexts ==
    { [k |-> "num", v |-> 1], [k |-> "num", v |-> 0],
      [k |-> "text", v |-> 0], [k |-> "none", v |-> 0] }

Coordinates == { << >> } \cup { << [x |-> x, y |-> y] >> : x \in NumTexts, y \in NumTexts }

VisualProcesses ==
    { ProcessIE(TRUE,
                << [IE(SUC_Product, 1, << >>, << >>, << >>) EXCEPT
                       !.Visual = << [position |-> pos, width |-> w, height |-> h] >>] >>,
                << >>) :
        pos \in Coordinates, w \in NumTexts, h \in NumTexts }

PortProcesses ==
    { ProcessIE(TRUE,
                << IE(SUC_Product, 1,
                      << [Port(1, FLOW_TO_INTERFACE["fpb:Flow"].out) EXCEPT
                             !.PortCoordinate = pcOut] >>,
                      << >>, << >>),
                   IE(SUC_ProcessOperator, 2,
                      << [Port(2, FLOW_TO_INTERFACE["fpb:Flow"].in) EXCEPT
                             !.PortCoordinate = pcIn] >>,
                      << >>, << >>) >>,
                << Link(1, 2) >>) :
        pcOut \in Coordinates, pcIn \in Coordinates }

\* Waypoint documents: one edge between two ports, side A of its link being
\* the source port or the target port, the source port with up to
\* MaxLinks + 1 FPD_Waypoint attributes in any order of their suffixes, a
\* suffix more than once included; x is the suffix and y the place in the
\* document.  Some lists begin with an attribute without a position or with a
\* coordinate that is no number.  The lists of more than one attribute are on
\* ports that both have a coordinate.
AuxiliaryLists ==
    LET numbered(idx) ==
            [j \in DOMAIN idx |->
                [index    |-> idx[j],
                 position |-> << [x |-> [k |-> "num", v |-> idx[j]],
                                  y |-> [k |-> "num", v |-> j]] >>]]
    IN  { numbered(idx) : idx \in SeqUpTo(0..MaxLinks, MaxLinks + 1) }
        \cup { << [index |-> 0, position |-> pos] >> \o numbered(idx) :
                 idx \in SeqUpTo(0..MaxLinks, 1),
                 pos \in { << >>,
                           << [x |-> [k |-> "text", v |-> 0],
                               y |-> [k |-> "num", v |-> 0]] >> } }

PortCoordinates ==
    { << >>,
      << [x |-> [k |-> "num", v |-> 1], y |-> [k |-> "num", v |-> 0]] >>,
      << [x |-> [k |-> "text", v |-> 0], y |-> [k |-> "num", v |-> 0]] >> }

\* both coordinates hold a point
HoldPoints(pcOut, pcIn) ==
    /\ Len(pcOut) > 0 /\ pcOut[1].x.k = "num"
    /\ Len(pcIn) > 0 /\ pcIn[1].x.k = "num"

WaypointProcesses ==
    LET process(pcOut, pcIn, aux, link) ==
            ProcessIE(TRUE,
                      << IE(SUC_Product, 1,
                            << [Port(1, FLOW_TO_INTERFACE["fpb:Flow"].out) EXCEPT
                                   !.PortCoordinate = pcOut, !.Waypoints = aux] >>,
                            << >>, << >>),
                         IE(SUC_ProcessOperator, 2,
                            << [Port(2, FLOW_TO_INTERFACE["fpb:Flow"].in) EXCEPT
                                   !.PortCoordinate = pcIn] >>,
                            << >>, << >>) >>,
                      << link >>)
    IN  { process(c[1], c[2], c[3], c[4]) :
            c \in { c \in PortCoordinates \X PortCoordinates \X AuxiliaryLists
                              \X {Link(1, 2), Link(2, 1)} :
                       HoldPoints(c[1], c[2]) \/ Len(c[3]) <= 1 } }

\* Tandem document: an operator with two ParallelFlow edges and one Flow edge
\* to one Product
TandemProcess ==
    ProcessIE(TRUE,
              << IE(SUC_ProcessOperator, 0,
                    << Port(1, FLOW_TO_INTERFACE["fpb:ParallelFlow"].out),
                       Port(2, FLOW_TO_INTERFACE["fpb:Flow"].out),
                       Port(3, FLOW_TO_INTERFACE["fpb:ParallelFlow"].out) >>,
                    << >>, << >>),
                 IE(SUC_Product, 0,
                    << Port(4, FLOW_TO_INTERFACE["fpb:ParallelFlow"].in),
                       Port(5, FLOW_TO_INTERFACE["fpb:Flow"].in),
                       Port(6, FLOW_TO_INTERFACE["fpb:ParallelFlow"].in) >>,
                    << >>, << >>) >>,
              << Link(1, 4), Link(2, 5), Link(3, 6) >>)

\* Documents with and without the structure amlToJson requires
StructuralDocs ==
    { Doc(<< >>),
      Doc(<< Hierarchy(<< >>) >>),
      Doc(<< Hierarchy(<< IE(SUC_ProcessOperator, 1, << >>, << >>, << >>) >>) >>),
      Doc(<< Hierarchy(<< >>), Hierarchy(<< ProcessIE(TRUE, << >>, << >>) >>) >>),
      Doc(<< Hierarchy(<< IE(SUC_Other, 0, << >>, << >>, << >>),
                          ProcessIE(TRUE, << >>, << >>) >>) >>) }

TreeDocs ==
    StructuralDocs
    \cup { Doc(<< Hierarchy(<<p>>) >>) :
             p \in WiringProcesses \cup NestingProcesses
                     \cup VisualProcesses \cup PortProcesses
                     \cup {TandemProcess} }

WaypointTreeDocs == { Doc(<< Hierarchy(<<p>>) >>) : p \in WaypointProcesses }

(***************************************************************************)
(* amlToJson and parseProcess, step by step.                               *)
(***************************************************************************)
Top == stack[Len(stack)]

ReplaceTop(f) == [stack EXCEPT ![Len(stack)] = f]

\* a search that takes the first child element whatever its class
TopProcessAnyChild(ih) == IF Len(ih.InternalElement) > 0 THEN 1 ELSE 0

\* Line 37: the top-level FPD_Process of a hierarchy, as an index (0: none)
TopProcess(ih) == findByRefSUC(ih.InternalElement, SUC_Process)

\* Lines 27-42: the structural checks and the call of parseProcess on the
\* top-level Process container.  Both failures are a throw: nothing is returned.
AmlToJson ==
    /\ pc = "amlToJson"
    /\ LET ihs == aml.InstanceHierarchy
       IN  IF Len(ihs) = 0 \/ TopProcess(ihs[1]) = 0
           THEN /\ pc' = "thrown"
                /\ UNCHANGED <<stack, idCounter>>
           ELSE LET ih == ihs[1]
                    e  == EnterProcess(ih.InternalElement[TopProcess(ih)], 0, idCounter)
                IN  /\ pc' = "parseProcess"
                    /\ stack' = << e.frame >>
                    /\ idCounter' = e.idCounter
    /\ UNCHANGED <<encoder, aml, processEntries, ret, out>>

\* the object element the innermost activation is about to parse
NextIE == Top.objectIEs[Top.i]

AtObjectIE ==
    /\ pc = "parseProcess"
    /\ Len(stack) > 0
    /\ Top.pending = 0
    /\ Top.i <= Len(Top.objectIEs)

\* Line 119: the SystemLimit child is skipped by the object loop
Skipped(ie) ==
    SUC_TO_ELEMENT[ie.RefBaseSystemUnitPath] \in {"fpb:SystemLimit", "fpb:Process"}

\* Line 121: parseIdentificationId(ie) || generateId()
ElemId(ie, n) ==
    IF parseIdentificationId(ie) # 0 THEN parseIdentificationId(ie) ELSE generateId(n)

\* a count that the id taken for an element does not advance
ElemIdCounterStuck(ie, n) == n

ElemIdCounter(ie, n) == IF parseIdentificationId(ie) # 0 THEN n ELSE n + 1

\* Lines 116-197, one pass for an object element without a nested Process
ParseObjectIE ==
    /\ AtObjectIE
    /\ LET ie == NextIE
       IN  IF Skipped(ie)
           THEN /\ stack' = ReplaceTop([Top EXCEPT !.i = @ + 1])
                /\ UNCHANGED idCounter
           ELSE /\ findByRefSUC(ie.InternalElement, SUC_Process) = 0
                /\ LET elemId == ElemId(ie, idCounter)
                       f1 == [Top EXCEPT !.interfaceMap =
                                 RegisterInterfaces(@, ie.ExternalInterface, elemId)]
                   IN  /\ stack' = ReplaceTop(RecordElement(f1, ie, elemId, 0))
                       /\ idCounter' = ElemIdCounter(ie, idCounter)
    /\ UNCHANGED <<encoder, pc, aml, processEntries, ret, out>>

\* Lines 117-148 for an object element that holds a nested Process: the call
\* parseProcess(nestedProcess, elemId, processEntries)
ParseNestedProcess ==
    /\ AtObjectIE
    /\ LET ie == NextIE
           nested == findByRefSUC(ie.InternalElement, SUC_Process)
       IN  /\ ~Skipped(ie)
           /\ nested # 0
           /\ LET elemId == ElemId(ie, idCounter)
                  f1 == [Top EXCEPT
                            !.interfaceMap =
                                RegisterInterfaces(@, ie.ExternalInterface, elemId),
                            !.pending = elemId]
                  e  == EnterProcess(ie.InternalElement[nested], elemId,
                                     ElemIdCounter(ie, idCounter))
              IN  /\ stack' = Append(ReplaceTop(f1), e.frame)
                  /\ idCounter' = e.idCounter
    /\ UNCHANGED <<encoder, pc, aml, processEntries, ret, out>>

\* Lines 151-197 after the nested parseProcess has returned
ResumeObjectIE ==
    /\ pc = "parseProcess"
    /\ Len(stack) > 0
    /\ Top.pending # 0
    /\ stack' = ReplaceTop(RecordElement(Top, NextIE, Top.pending, Top.pending))
    /\ UNCHANGED <<encoder, pc, aml, processEntries, idCounter, ret, out>>

\* Lines 202-285, one pass.  Reading .direction of a side that interfaceMap does
\* not hold is a TypeError, which ends the conversion; the guard of line 208
\* keeps the loop from it.
ParseLink ==
    /\ pc = "parseProcess"
    /\ Len(stack) > 0
    /\ Top.pending = 0
    /\ Top.i > Len(Top.objectIEs)
    /\ Top.k <= Len(Top.links)
    /\ LET link == Top.links[Top.k]
       IN  IF LinkSkipped(Top.interfaceMap, link)
           THEN /\ stack' = ReplaceTop([Top EXCEPT !.k = @ + 1])
                /\ UNCHANGED <<pc, idCounter>>
           ELSE IF \/ link.RefPartnerSideA \notin DOMAIN Top.interfaceMap
                   \/ link.RefPartnerSideB \notin DOMAIN Top.interfaceMap
           THEN /\ pc' = "thrown"
                /\ UNCHANGED <<stack, idCounter>>
           ELSE /\ stack' = ReplaceTop(BuildFlow(Top, link, idCounter))
                /\ idCounter' = idCounter + 1
                /\ UNCHANGED pc
    /\ UNCHANGED <<encoder, aml, processEntries, ret, out>>

\* parseProcess with processEntries.unshift(processEntry) at line 343: the
\* entry of a process in front of the entries of the processes nested in it
FinishProcessInFront ==
    /\ pc = "parseProcess"
    /\ Len(stack) > 0
    /\ Top.pending = 0
    /\ Top.i > Len(Top.objectIEs)
    /\ Top.k > Len(Top.links)
    /\ processEntries' = << ProcessEntry(Top) >> \o processEntries
    /\ ret' = Top.processId
    /\ stack' = SubSeq(stack, 1, Len(stack) - 1)
    /\ UNCHANGED <<encoder, pc, aml, idCounter, out>>

\* Lines 287-345: the entry is appended to processEntries and the activation returns
FinishProcess ==
    /\ pc = "parseProcess"
    /\ Len(stack) > 0
    /\ Top.pending = 0
    /\ Top.i > Len(Top.objectIEs)
    /\ Top.k > Len(Top.links)
    /\ processEntries' = Append(processEntries, ProcessEntry(Top))
    /\ ret' = Top.processId
    /\ stack' = SubSeq(stack, 1, Len(stack) - 1)
    /\ UNCHANGED <<encoder, pc, aml, idCounter, out>>

\* Lines 44-52: the Project header and the result
AmlToJsonReturn ==
    /\ pc = "parseProcess"
    /\ Len(stack) = 0
    /\ out' = << [type |-> "fpb:Project", entryPoint |-> ret] >> \o processEntries
    /\ pc' = "returned"
    /\ UNCHANGED <<encoder, aml, stack, processEntries, idCounter, ret>>

\* server.js lines 37-44: the handler of POST /api/to-json sends what amlToJson
\* returned, or the status 400 with the message of what it threw
ToJsonRespond ==
    /\ pc \in {"returned", "thrown"}
    /\ res.status = 0
    /\ res' = IF pc = "returned"
              THEN [status |-> 200, body |-> out]
              ELSE [status |-> 400, body |-> << >>]
    /\ UNCHANGED <<pc, json, build, uuid, aml, stack, processEntries, idCounter, ret, out,
                   second>>

(***************************************************************************)
(* json-to-aml.js: attribute builders.                                     *)
(*                                                                         *)
(* A graph-form record has the fields the JSON object has; $type is type.  *)
(* A numeric field holds a JavaScript number, [nan, v].                    *)
(***************************************************************************)
uuidv4(n) == -(n + 1)

\* a slot without a Value child
NoValue == [k |-> "none", v |-> 0]

\* String(value) of a number, as the text parseFloat will be given
NumberText(num) ==
    IF num.nan THEN [k |-> "text", v |-> 0] ELSE [k |-> "num", v |-> num.v]

\* Lines 438-444: the Value child is left out when the field is undefined
addDoubleSubAttr(r, name) ==
    IF HasField(r, name) THEN NumberText(r[name]) ELSE NoValue

\* Lines 262-271, the uniqueIdent slot: '' gets no Value child and reads as ''
addIdentificationAttr(identification) ==
    << [uniqueIdent |-> identification.uniqueIdent] >>

\* Lines 325-344
addVisualAttr(visual) ==
    << [position |-> << [x |-> addDoubleSubAttr(visual, "x"),
                         y |-> addDoubleSubAttr(visual, "y")] >>,
        width    |-> addDoubleSubAttr(visual, "width"),
        height   |-> addDoubleSubAttr(visual, "height")] >>

\* Lines 406-415
addPortCoordinate(point) ==
    << [x |-> addDoubleSubAttr(point, "x"), y |-> addDoubleSubAttr(point, "y")] >>

\* Lines 417-426
addEmptyPortCoordinate == << [x |-> NoValue, y |-> NoValue] >>

\* the waypoint itself, whatever its original sub-point
PointItself(wp) == wp

\* first.original || first
OriginalOr(wp) == IF HasField(wp, "original") THEN wp.original ELSE wp

\* Lines 355-389: the coordinate of an outgoing port and its FPD_Waypoint,
\* FPD_Waypoint1, ... attributes, index being the suffix of the name
addFlowOutInterface(waypoints) ==
    IF Len(waypoints) = 0
    THEN [PortCoordinate |-> addEmptyPortCoordinate, Waypoints |-> << >>]
    ELSE LET middle == SubSeq(waypoints, 2, Len(waypoints) - 1)
             kept   == SelectSeq(middle, LAMBDA wp : ~HasField(wp, "original"))
         IN  [PortCoordinate |-> addPortCoordinate(OriginalOr(waypoints[1])),
              Waypoints |->
                  [j \in 1..Len(kept) |->
                      [index    |-> j - 1,
                       position |-> << [x |-> addDoubleSubAttr(kept[j], "x"),
                                        y |-> addDoubleSubAttr(kept[j], "y")] >>]]]

\* Lines 395-404: the coordinate of an incoming port
addFlowInInterface(waypoints) ==
    IF Len(waypoints) = 0
    THEN [PortCoordinate |-> addEmptyPortCoordinate, Waypoints |-> << >>]
    ELSE [PortCoordinate |-> addPortCoordinate(OriginalOr(waypoints[Len(waypoints)])),
          Waypoints |-> << >>]

(***************************************************************************)
(* json-to-aml.js: buildProcess.                                           *)
(*                                                                         *)
(* One activation of buildProcess is a record of its local variables: i is *)
(* the position in objects of the next element, children the child         *)
(* elements of procIE emitted so far, and pending the element whose nested *)
(* Process container the activation above is building (<< >>: none).       *)
(* linkMap is the Map of the source as the sequence of its entries in      *)
(* insertion order, an interface id not yet set being 0.                   *)
(***************************************************************************)
\* ifacePaths.out.split('/')[1]
BaseName(path) ==
    CASE path = "FPD_InterfaceClassLib/FPD_FlowOut"            -> "FPD_FlowOut"
      [] path = "FPD_InterfaceClassLib/FPD_FlowIn"             -> "FPD_FlowIn"
      [] path = "FPD_InterfaceClassLib/FPD_ParallelFlowOut"    -> "FPD_ParallelFlowOut"
      [] path = "FPD_InterfaceClassLib/FPD_ParallelFlowIn"     -> "FPD_ParallelFlowIn"
      [] path = "FPD_InterfaceClassLib/FPD_AlternativeFlowOut" -> "FPD_AlternativeFlowOut"
      [] path = "FPD_InterfaceClassLib/FPD_AlternativeFlowIn"  -> "FPD_AlternativeFlowIn"
      [] path = "FPD_InterfaceClassLib/FPD_Usage"              -> "FPD_Usage"

\* count === 0 ? baseName : `${baseName}${count}`: the name and its suffix
InterfaceName(baseName, count) ==
    IF count = 0 THEN <<baseName>> ELSE <<baseName, count>>

\* a numbering with one counter per base name for all elements of the process
getNextInterfaceNamePerProcess(ifaceCounters, elementId, baseName) ==
    LET key   == <<0, baseName>>
        count == IF key \in DOMAIN ifaceCounters THEN ifaceCounters[key] ELSE 0
    IN  [name     |-> InterfaceName(baseName, count),
         counters |-> (key :> count + 1) @@ ifaceCounters]

\* Lines 115-123: ifaceCounters as a function of <<elementId, baseName>>
getNextInterfaceName(ifaceCounters, elementId, baseName) ==
    LET key   == <<elementId, baseName>>
        count == IF key \in DOMAIN ifaceCounters THEN ifaceCounters[key] ELSE 0
    IN  [name     |-> InterfaceName(baseName, count),
         counters |-> (key :> count + 1) @@ ifaceCounters]

\* map.get(id) of a Map filled record by record with map.set(record.id, record):
\* the last record with the id, or << >>
MapGet(records, Id(_), id) ==
    LET at == { n \in DOMAIN records : Id(records[n]) = id }
    IN  IF at = {} THEN << >>
        ELSE << records[CHOOSE n \in at : \A m \in at : m <= n] >>

\* a lookup that falls back to the first process entry
ProcessMapGetOrFirst(processEntries_, processId) ==
    IF Len(MapGet(processEntries_, LAMBDA e : e.process.id, processId)) > 0
    THEN MapGet(processEntries_, LAMBDA e : e.process.id, processId)
    ELSE SubSeq(processEntries_, 1, 1)

\* Lines 21-24: processMap.get(processId)
ProcessMapGet(processEntries_, processId) ==
    MapGet(processEntries_, LAMBDA e : e.process.id, processId)

\* Lines 72-75: visualMap.get(id)
VisualMapGet(evi, id) == MapGet(evi, LAMBDA vi : vi.id, id)

\* if (!linkMap.has(flow.id)) linkMap.set(flow.id, {}); linkMap.get(flow.id)[side] = id
LinkMapSet(linkMap, flowId, side, ifaceId) ==
    LET at == FindIndex(linkMap, LAMBDA e : e.flowId = flowId)
        base == IF at = 0
                THEN Append(linkMap, [flowId |-> flowId, out |-> 0, in |-> 0])
                ELSE linkMap
        pos  == IF at = 0 THEN Len(base) ELSE at
    IN  [base EXCEPT ![pos][side] = ifaceId]

\* Lines 172-199 (side = "out") and 202-229 (side = "in"): the ports of one
\* element for the edges in edges, in their order.  st holds the ports of the
\* element so far, ifaceCounters, linkMap and the count of uuidv4.
RECURSIVE EmitPorts(_, _, _, _, _)
EmitPorts(st, obj, edges, side, evi) ==
    IF Len(edges) = 0 THEN st
    ELSE LET flow       == Head(edges)
             path       == FLOW_TO_INTERFACE[flow.type][side]
             next       == getNextInterfaceName(st.counters, obj.id, BaseName(path))
             ifaceId    == uuidv4(st.u)
             flowVisual == VisualMapGet(evi, flow.id)
             geometry   == IF Len(flowVisual) > 0 /\ HasField(flowVisual[1], "waypoints")
                           THEN IF side = "out"
                                THEN addFlowOutInterface(flowVisual[1].waypoints)
                                ELSE addFlowInInterface(flowVisual[1].waypoints)
                           ELSE [PortCoordinate |-> addEmptyPortCoordinate,
                                 Waypoints |-> << >>]
             extIf      == [ID |-> ifaceId, Name |-> next.name,
                            RefBaseClassPath |-> path,
                            PortCoordinate |-> geometry.PortCoordinate,
                            Waypoints |-> geometry.Waypoints]
         IN  EmitPorts([ports    |-> Append(st.ports, extIf),
                        counters |-> next.counters,
                        linkMap  |-> LinkMapSet(st.linkMap, flow.id, side, ifaceId),
                        u        |-> st.u + 1],
                       obj, Tail(edges), side, evi)

\* Lines 146-229: the element of one object with its blocks and its ports,
\* those of its outgoing edges before those of its incoming edges
BuildObjectIE(f, obj, u) ==
    LET visual   == VisualMapGet(f.evi, obj.id)
        outFlows == SelectSeq(f.flows, LAMBDA flow : flow.sourceRef = obj.id)
        inFlows  == SelectSeq(f.flows, LAMBDA flow : flow.targetRef = obj.id)
        st0      == [ports |-> << >>, counters |-> f.ifaceCounters,
                     linkMap |-> f.linkMap, u |-> u + 1]
        st1      == EmitPorts(st0, obj, outFlows, "out", f.evi)
        st2      == EmitPorts(st1, obj, inFlows, "in", f.evi)
    IN  [ie |-> [ID |-> uuidv4(u),
                 RefBaseSystemUnitPath |-> ELEMENT_TO_SUC[obj.type],
                 Identification    |-> IF HasField(obj, "identification")
                                       THEN addIdentificationAttr(obj.identification)
                                       ELSE << >>,
                 Visual            |-> IF Len(visual) > 0
                                       THEN addVisualAttr(visual[1]) ELSE << >>,
                 ExternalInterface |-> st2.ports,
                 InternalElement   |-> << >>,
                 InternalLink      |-> << >>],
         ifaceCounters |-> st2.counters,
         linkMap       |-> st2.linkMap,
         u             |-> st2.u]

\* the name counters of the activation the waiting conversion is in
IfaceCountersOfSecond ==
    IF Len(second.build) > 0
    THEN second.build[Len(second.build)].ifaceCounters
    ELSE << >>

\* Line 113: const ifaceCounters = new Map(), a local of each activation
NewIfaceCounters == << >>

\* Lines 69-128: the locals of a fresh activation for a process entry, the
\* SystemLimit element being the first child of procIE
EnterBuild(entry, u) ==
    LET edi    == entry.elementDataInformation
        evi    == entry.elementVisualInformation
        sl     == FindIndex(edi, LAMBDA e : e.type = "fpb:SystemLimit")
        slVisual == IF sl # 0 THEN VisualMapGet(evi, edi[sl].id) ELSE << >>
        slIE   == [ID |-> uuidv4(u + 1),
                   RefBaseSystemUnitPath |-> ELEMENT_TO_SUC["fpb:SystemLimit"],
                   Identification    |-> << >>,
                   Visual            |-> IF Len(slVisual) > 0
                                         THEN addVisualAttr(slVisual[1]) ELSE << >>,
                   ExternalInterface |-> << >>,
                   InternalElement   |-> << >>,
                   InternalLink      |-> << >>]
    IN  [frame |->
            [procId   |-> uuidv4(u),
             evi      |-> evi,
             flows    |-> SelectSeq(edi, LAMBDA e : e.type \in CONNECTION_TYPES),
             objects  |-> SelectSeq(edi, LAMBDA e : e.type \in OBJECT_TYPES),
             i        |-> 1,
             children |-> IF sl # 0 THEN <<slIE>> ELSE << >>,
             ifaceCounters |-> NewIfaceCounters,
             linkMap  |-> << >>,
             pending  |-> << >>],
         u |-> IF sl # 0 THEN u + 2 ELSE u + 1]

\* the name of the n-th link: Link, Link1, Link2, ...
LinkName(linkCounter) == IF linkCounter = 0 THEN <<"Link">> ELSE <<"Link", linkCounter>>

\* the links with linkCounter counting every entry of linkMap, those without
\* both interfaces as well
InternalLinksCountingAll(linkMap) ==
    LET placed == [k \in DOMAIN linkMap |-> [entry |-> linkMap[k], at |-> k]]
        both   == SelectSeq(placed, LAMBDA e : e.entry.out # 0 /\ e.entry.in # 0)
    IN  [n \in 1..Len(both) |->
            [RefPartnerSideA |-> both[n].entry.out,
             RefPartnerSideB |-> both[n].entry.in,
             Name            |-> LinkName(both[n].at - 1)]]

\* Lines 241-252: one InternalLink per entry of linkMap with both interfaces
InternalLinks(linkMap) ==
    LET both == SelectSeq(linkMap, LAMBDA e : e.out # 0 /\ e.in # 0)
    IN  [n \in 1..Len(both) |->
            [RefPartnerSideA |-> both[n].out,
             RefPartnerSideB |-> both[n].in,
             Name            |-> LinkName(n - 1)]]

\* Lines 87-91 and 241-254: the finished FPD_Process element of an activation
CloseProcess(f) ==
    [ID |-> f.procId,
     RefBaseSystemUnitPath |-> ELEMENT_TO_SUC["fpb:Process"],
     Identification    |-> << >>,
     Visual            |-> << >>,
     ExternalInterface |-> << >>,
     InternalElement   |-> f.children,
     InternalLink      |-> InternalLinks(f.linkMap)]

(***************************************************************************)
(* jsonToAml and buildProcess, step by step.                               *)
(***************************************************************************)
BTop == build[Len(build)]

ReplaceBTop(f) == [build EXCEPT ![Len(build)] = f]

NextObject == BTop.objects[BTop.i]

\* Line 18: jsonData.find(e => e.$type === 'fpb:Project'), as an index
Project(jsonData) ==
    FindIndex(jsonData, LAMBDA e : HasField(e, "type") /\ e.type = "fpb:Project")

\* Line 19: jsonData.filter(e => e.process)
ProcessEntriesOf(jsonData) == SelectSeq(jsonData, LAMBDA e : HasField(e, "process"))

\* buildProcess without lines 232-235: no operator is decomposed
NestedEntryIgnored(obj) == << >>

\* Lines 232-235: the entry buildProcess finds for the decomposedView of an
\* operator; << >> when there is no call or the call returns at line 67
NestedEntry(obj) ==
    IF /\ obj.type = "fpb:ProcessOperator"
       /\ HasField(obj, "decomposedView")
       /\ obj.decomposedView # 0
    THEN ProcessMapGet(ProcessEntriesOf(json), obj.decomposedView)
    ELSE << >>

\* Lines 16-53 up to the first activation of buildProcess.  Reading entryPoint
\* of a document without a Project record is a TypeError.  buildProcess
\* returns at once when processMap has no entry for entryPoint, and jsonToAml
\* then returns a document whose InstanceHierarchy has no element.
JsonToAml ==
    /\ pc = "jsonToAml"
    /\ IF Project(json) = 0
       THEN /\ pc' = "jsonToAmlThrown"
            /\ UNCHANGED <<build, uuid, aml>>
       ELSE LET entry == ProcessMapGet(ProcessEntriesOf(json),
                                       json[Project(json)].entryPoint)
            IN  IF Len(entry) = 0
                THEN /\ aml' = Doc(<< Hierarchy(<< >>) >>)
                     /\ pc' = "built"
                     /\ uuid' = uuid + 1
                     /\ UNCHANGED build
                ELSE LET e == EnterBuild(entry[1], uuid + 1)
                     IN  /\ build' = << e.frame >>
                         /\ uuid' = e.u
                         /\ pc' = "buildProcess"
                         /\ UNCHANGED aml
    /\ UNCHANGED <<json, stack, processEntries, idCounter, ret, out, res, second>>

\* Lines 143-238 for an element without a nested process to build
BuildObject ==
    /\ pc = "buildProcess"
    /\ Len(build) > 0
    /\ BTop.pending = << >>
    /\ BTop.i <= Len(BTop.objects)
    /\ Len(NestedEntry(NextObject)) = 0
    /\ IF NextObject.type = "fpb:SystemLimit"
       THEN /\ build' = ReplaceBTop([BTop EXCEPT !.i = @ + 1])
            /\ UNCHANGED uuid
       ELSE LET b == BuildObjectIE(BTop, NextObject, uuid)
            IN  /\ build' = ReplaceBTop([BTop EXCEPT
                                !.children = Append(@, b.ie),
                                !.ifaceCounters = b.ifaceCounters,
                                !.linkMap = b.linkMap,
                                !.i = @ + 1])
                /\ uuid' = b.u
    /\ UNCHANGED <<pc, json, aml, stack, processEntries, idCounter, ret, out, res, second>>

\* Lines 143-235 for an operator with a decomposedView that processMap holds:
\* its element and ports, then the activation for the nested process
BuildNestedProcess ==
    /\ pc = "buildProcess"
    /\ Len(build) > 0
    /\ BTop.pending = << >>
    /\ BTop.i <= Len(BTop.objects)
    /\ Len(NestedEntry(NextObject)) > 0
    /\ LET b == BuildObjectIE(BTop, NextObject, uuid)
           e == EnterBuild(NestedEntry(NextObject)[1], b.u)
       IN  /\ build' = Append(ReplaceBTop([BTop EXCEPT
                                  !.ifaceCounters = b.ifaceCounters,
                                  !.linkMap = b.linkMap,
                                  !.pending = << b.ie >>]),
                              e.frame)
           /\ uuid' = e.u
    /\ UNCHANGED <<pc, json, aml, stack, processEntries, idCounter, ret, out, res, second>>

\* Lines 240-254: the links, and the return: into the element of the operator
\* that is waiting (line 237), or into the InstanceHierarchy, after which
\* jsonToAml appends the libraries and returns the document (lines 53-58)
FinishBuild ==
    /\ pc = "buildProcess"
    /\ Len(build) > 0
    /\ BTop.pending = << >>
    /\ BTop.i > Len(BTop.objects)
    /\ IF Len(build) = 1
       THEN /\ aml' = Doc(<< Hierarchy(<< CloseProcess(BTop) >>) >>)
            /\ build' = << >>
            /\ pc' = "built"
       ELSE LET parent == build[Len(build) - 1]
                ie     == [parent.pending[1] EXCEPT
                              !.InternalElement = << CloseProcess(BTop) >>]
            IN  /\ build' = [SubSeq(build, 1, Len(build) - 1) EXCEPT
                                ![Len(build) - 1] =
                                    [parent EXCEPT !.children = Append(@, ie),
                                                   !.pending = << >>,
                                                   !.i = @ + 1]]
                /\ UNCHANGED <<pc, aml>>
    /\ UNCHANGED <<json, uuid, stack, processEntries, idCounter, ret, out, res, second>>

\* Lines 65-255 run from an activation to its return without a step of
\* another conversion in between: the FPD_Process element and the number of
\* identifiers drawn by then
RECURSIVE buildProcess(_, _)
buildProcess(f, u) ==
    IF f.i > Len(f.objects) THEN [ie |-> CloseProcess(f), u |-> u]
    ELSE LET obj == f.objects[f.i]
         IN  IF obj.type = "fpb:SystemLimit"
             THEN buildProcess([f EXCEPT !.i = @ + 1], u)
             ELSE LET b      == BuildObjectIE(f, obj, u)
                      nested == NestedEntry(obj)
                      e      == EnterBuild(nested[1], b.u)
                      sub    == buildProcess(e.frame, e.u)
                      ie     == IF Len(nested) = 0 THEN b.ie
                                ELSE [b.ie EXCEPT !.InternalElement = << sub.ie >>]
                  IN  buildProcess([f EXCEPT !.children = Append(@, ie),
                                             !.ifaceCounters = b.ifaceCounters,
                                             !.linkMap = b.linkMap,
                                             !.i = @ + 1],
                                   IF Len(nested) = 0 THEN b.u ELSE sub.u)

\* Lines 16-58: the document jsonToAml returns for jsonData when it runs alone,
\* the first identifier it draws being uuidv4(u); << >> when it throws
jsonToAml(jsonData, u) ==
    IF Project(jsonData) = 0 THEN << >>
    ELSE LET entry == ProcessMapGet(ProcessEntriesOf(jsonData),
                                    jsonData[Project(jsonData)].entryPoint)
         IN  IF Len(entry) = 0 THEN Doc(<< Hierarchy(<< >>) >>)
             ELSE Doc(<< Hierarchy(<< buildProcess(EnterBuild(entry[1], u + 1).frame,
                                                   EnterBuild(entry[1], u + 1).u).ie >>) >>)

\* server.js lines 27-35, two calls of jsonToAml on one document: the
\* conversion that runs and the one that waits change places.  jsonToAml has
\* no suspension point, so the orders a JavaScript host can produce are those
\* of whole calls; the order of steps is left free here, which includes them.
Switch ==
    /\ second.pc \in {"jsonToAml", "buildProcess", "built"}
    /\ pc \in {"jsonToAml", "buildProcess", "built"}
    /\ pc' = second.pc
    /\ build' = second.build
    /\ aml' = second.aml
    /\ second' = [pc |-> pc, build |-> build, aml |-> aml]
    /\ UNCHANGED <<json, uuid, stack, processEntries, idCounter, ret, out, res>>

\* ToTree followed by ToGraph: the document jsonToAml returned is given to
\* amlToJson
ThenAmlToJson ==
    /\ pc = "built"
    /\ pc' = "amlToJson"
    /\ UNCHANGED <<json, build, uuid, aml, stack, processEntries, idCounter, ret, out, res, second>>

(***************************************************************************)
(* The graph-form documents of the model.                                  *)
(*                                                                         *)
(* A document is built from its elements and the kind and endpoints of its *)
(* edges; incoming, outgoing, isAssignedTo, inTandemWith and the           *)
(* elementsContainer of the SystemLimit are filled in as the invariants of *)
(* the graph form require.                                                 *)
(***************************************************************************)
GElement(type, id, hasIdent, decomposedView) ==
    [type |-> type, id |-> id,
     incoming |-> << >>, outgoing |-> << >>, isAssignedTo |-> << >>]
    @@ (IF hasIdent THEN [identification |->
                             [type |-> "fpb:Identification", uniqueIdent |-> id]]
        ELSE << >>)
    @@ (IF decomposedView # 0 THEN [decomposedView |-> decomposedView] ELSE << >>)

GFlow(type, id, sourceRef, targetRef) ==
    [type |-> type, id |-> id, sourceRef |-> sourceRef, targetRef |-> targetRef]
    @@ (IF type \in {"fpb:ParallelFlow", "fpb:AlternativeFlow"}
        THEN [inTandemWith |-> << >>] ELSE << >>)

\* the ids of the members of s that satisfy P, in order
IdsWhere(s, P(_)) == MapSeq(SelectSeq(s, P), LAMBDA r : r.id)

\* the ids s holds, each once, in the order of first occurrence
RECURSIVE Dedup(_)
Dedup(s) ==
    IF Len(s) = 0 THEN << >>
    ELSE LET init == Dedup(SubSeq(s, 1, Len(s) - 1))
         IN  IF Includes(init, s[Len(s)]) THEN init ELSE Append(init, s[Len(s)])

TypeOf(elems, id) == elems[FindIndex(elems, LAMBDA e : e.id = id)].type

\* the element the edge joins to the element id, if the edge makes id list it
\* in isAssignedTo: a Usage edge both ways, another edge between a state and
\* an operator for the state only
AssignedBy(elems, flow, id) ==
    LET other == IF flow.sourceRef = id THEN flow.targetRef ELSE flow.sourceRef
    IN  IF flow.sourceRef # id /\ flow.targetRef # id THEN << >>
        ELSE IF flow.type = "fpb:Usage" THEN <<other>>
        ELSE IF /\ TypeOf(elems, id) \in StateTypes
                /\ TypeOf(elems, other) = "fpb:ProcessOperator"
        THEN <<other>>
        ELSE << >>

RECURSIVE Concat(_)
Concat(ss) == IF Len(ss) = 0 THEN << >> ELSE Head(ss) \o Concat(Tail(ss))

GEntry(processId, parentId, slId, elems, flows) ==
    LET elements ==
            MapSeq(elems, LAMBDA e :
                [e EXCEPT
                    !.incoming = IdsWhere(flows, LAMBDA f : f.targetRef = e.id),
                    !.outgoing = IdsWhere(flows, LAMBDA f : f.sourceRef = e.id),
                    !.isAssignedTo =
                        Dedup(Concat(MapSeq(flows, LAMBDA f : AssignedBy(elems, f, e.id))))])
        edges ==
            MapSeq(flows, LAMBDA f :
                IF ~HasField(f, "inTandemWith") THEN f
                ELSE [f EXCEPT !.inTandemWith =
                         IdsWhere(flows, LAMBDA g :
                             /\ g.id # f.id
                             /\ g.type = f.type
                             /\ g.sourceRef = f.sourceRef)])
        ids == MapSeq(elements, LAMBDA e : e.id) \o MapSeq(edges, LAMBDA f : f.id)
        sl  == IF slId # 0
               THEN << [type |-> "fpb:SystemLimit", id |-> slId,
                        elementsContainer |-> ids] >>
               ELSE << >>
    IN  [process |->
            [type |-> "fpb:Process",
             id   |-> processId,
             elementsContainer |->
                 IF slId # 0
                 THEN <<slId>> \o IdsWhere(elements,
                                           LAMBDA e : e.type = "fpb:TechnicalResource")
                 ELSE << >>,
             isDecomposedProcessOperator |-> parentId,
             consistsOfStates      |-> IdsWhere(elements, LAMBDA e : e.type \in StateTypes),
             consistsOfSystemLimit |-> slId,
             consistsOfProcesses   |->
                 MapSeq(SelectSeq(elements, LAMBDA e : HasField(e, "decomposedView")),
                        LAMBDA e : e.decomposedView),
             consistsOfProcessOperator |->
                 IdsWhere(elements, LAMBDA e : e.type = "fpb:ProcessOperator"),
             parent |-> parentId],
         elementDataInformation   |-> sl \o elements \o edges,
         elementVisualInformation |-> << >>]

GProject(entryPoint) == [type |-> "fpb:Project", entryPoint |-> entryPoint]

\* Well-formed documents: a root process of an operator (id 1), two products
\* (2, 3) and a resource (4), its edges among those of FlowChoices, at most
\* MaxLinks of them, and below the operator a chain of nest decomposed
\* processes of one operator each.
FlowChoices ==
    { <<"fpb:Flow", 2, 1>>, <<"fpb:Flow", 1, 2>>, <<"fpb:Flow", 1, 3>>,
      <<"fpb:ParallelFlow", 1, 2>>, <<"fpb:ParallelFlow", 1, 3>>,
      <<"fpb:AlternativeFlow", 1, 2>>, <<"fpb:AlternativeFlow", 1, 3>>,
      <<"fpb:Usage", 1, 4>>, <<"fpb:Usage", 4, 1>> }

GraphDoc(flowSpec, nest, hasSL, hasIdent) ==
    LET flows == [n \in 1..Len(flowSpec) |->
                     GFlow(flowSpec[n][1], 20 + n, flowSpec[n][2], flowSpec[n][3])]
        root  == GEntry(10, 0, IF hasSL THEN 30 ELSE 0,
                        << GElement("fpb:ProcessOperator", 1, hasIdent,
                                    IF nest > 0 THEN 11 ELSE 0),
                           GElement("fpb:Product", 2, hasIdent, 0),
                           GElement("fpb:Product", 3, hasIdent, 0),
                           GElement("fpb:TechnicalResource", 4, hasIdent, 0) >>,
                        flows)
        nested == [k \in 1..nest |->
                      GEntry(10 + k, IF k = 1 THEN 1 ELSE 39 + k, 30 + k,
                             << GElement("fpb:ProcessOperator", 40 + k, hasIdent,
                                         IF k < nest THEN 11 + k ELSE 0) >>,
                             << >>)]
    IN  << GProject(10), root >> \o nested

WellFormedDocs ==
    { GraphDoc(flowSpec, nest, hasSL, hasIdent) :
        flowSpec \in SeqUpTo(FlowChoices, MaxLinks), nest \in 0..(MaxElems - 1),
        hasSL \in BOOLEAN, hasIdent \in BOOLEAN }

\* the scenario of one Product, one operator and one Flow of two waypoints
\* between them, with the visual records of the three and of the SystemLimit
ScenarioDoc ==
    LET entry == GEntry(10, 0, 30,
                        << GElement("fpb:Product", 2, TRUE, 0),
                           GElement("fpb:ProcessOperator", 1, TRUE, 0) >>,
                        << GFlow("fpb:Flow", 21, 2, 1) >>)
        box(id, type, at) ==
            [id |-> id, type |-> type, x |-> Num(at), y |-> Num(at),
             width |-> Num(2), height |-> Num(1)]
        point(at) ==
            [original |-> [x |-> Num(at), y |-> Num(at)], x |-> Num(at), y |-> Num(at)]
    IN  << GProject(10),
           [entry EXCEPT !.elementVisualInformation =
               << box(30, "fpb:SystemLimit", 0), box(2, "fpb:Product", 1),
                  box(1, "fpb:ProcessOperator", 3),
                  [id |-> 21, type |-> "fpb:Flow",
                   waypoints |-> << point(2), point(3) >>] >>] >>

\* a waypoint of a visual record, flagged original or not; the original
\* sub-point is another point than the waypoint itself
Waypoint(j, flagged) ==
    [x |-> Num(j), y |-> Num(j + 1)]
    @@ (IF flagged THEN [original |-> [x |-> Num(10 + j), y |-> Num(20 + j)]]
        ELSE << >>)

\* the scenario with up to MaxLinks + 2 waypoints on its edge, each flagged
\* or not
WaypointDocs ==
    { [ScenarioDoc EXCEPT ![2].elementVisualInformation[4].waypoints =
           [j \in DOMAIN flags |-> Waypoint(j, flags[j])]] :
        flags \in SeqUpTo(BOOLEAN, MaxLinks + 2) }

\* Documents with edges that get one port only: an end of the edge is the
\* SystemLimit (30) or no element of the process (99)
LinkChoices ==
    { <<"fpb:Flow", 1, 99>>, <<"fpb:Flow", 30, 1>>,
      <<"fpb:Flow", 2, 1>>, <<"fpb:Flow", 1, 3>> }

LinkDocs ==
    { GraphDoc(flowSpec, 0, TRUE, TRUE) : flowSpec \in SeqUpTo(LinkChoices, MaxLinks + 1) }

\* documents whose entryPoint names no process entry, and one without a
\* Project record
DanglingDocs ==
    { [GraphDoc(<< >>, nest, TRUE, TRUE) EXCEPT ![1].entryPoint = entryPoint] :
        nest \in {0, 1}, entryPoint \in {0, 11, 99} }

HeaderlessDoc == Tail(GraphDoc(<< >>, 0, TRUE, TRUE))

GraphDocs ==
    WellFormedDocs \cup DanglingDocs \cup WaypointDocs \cup LinkDocs
    \cup {ScenarioDoc, HeaderlessDoc}

\* the documents two conversions share: without edges, with two Flow edges,
\* with two Usage edges, which give the operator two ports of one base name,
\* with a tandem pair, each with and
\* without a decomposed process, and the scenario with visual records
SharedDocs ==
    { GraphDoc(flowSpec, nest, TRUE, TRUE) :
        flowSpec \in { << >>,
                       << <<"fpb:Flow", 2, 1>>, <<"fpb:Flow", 1, 3>> >>,
                       << <<"fpb:Usage", 1, 4>>, <<"fpb:Usage", 4, 1>> >>,
                       << <<"fpb:ParallelFlow", 1, 2>>, <<"fpb:ParallelFlow", 1, 3>> >> },
        nest \in {0, 1} }
    \cup {ScenarioDoc}

\* the tree-form documents jsonToAml returns for the waypoint documents
EncodedDocs == { jsonToAml(doc, 0) : doc \in WaypointDocs }

Init ==
    /\ pc = "amlToJson"
    /\ json = << >>
    /\ build = << >>
    /\ uuid = 0
    /\ \/ aml \in TreeDocs
       \/ aml \in WaypointTreeDocs
       \/ aml \in EncodedDocs
    /\ stack = << >>
    /\ processEntries = << >>
    /\ idCounter = 0
    /\ ret = 0
    /\ out = << >>
    /\ res = [status |-> 0, body |-> << >>]
    /\ second = Idle

Next ==
    \/ AmlToJson
    \/ ParseObjectIE
    \/ ParseNestedProcess
    \/ ResumeObjectIE
    \/ ParseLink
    \/ FinishProcess
    \/ AmlToJsonReturn
    \/ ToJsonRespond

Spec == Init /\ [][Next]_vars

\* The round trip: jsonToAml on a graph-form document, then amlToJson on the
\* document it returned.
InitRoundTrip ==
    /\ pc = "jsonToAml"
    /\ json \in GraphDocs
    /\ build = << >>
    /\ uuid = 0
    /\ aml = << >>
    /\ stack = << >>
    /\ processEntries = << >>
    /\ idCounter = 0
    /\ ret = 0
    /\ out = << >>
    /\ res = [status |-> 0, body |-> << >>]
    /\ second = Idle

NextRoundTrip ==
    \/ JsonToAml
    \/ BuildObject
    \/ BuildNestedProcess
    \/ FinishBuild
    \/ ThenAmlToJson
    \/ AmlToJson
    \/ ParseObjectIE
    \/ ParseNestedProcess
    \/ ResumeObjectIE
    \/ ParseLink
    \/ FinishProcess
    \/ AmlToJsonReturn

SpecRoundTrip == InitRoundTrip /\ [][NextRoundTrip]_vars

(***************************************************************************)
(* Properties of amlToJson.                                                *)
(*                                                                         *)
(* The properties read the returned document, out, against the tree-form   *)
(* document aml.  The entry of the top-level Process is the last of out.   *)
(***************************************************************************)
\* Two conversions of one graph-form document to the tree form, the steps of
\* the one between the steps of the other in any order.
InitShared ==
    /\ pc = "jsonToAml"
    /\ json \in SharedDocs
    /\ build = << >>
    /\ uuid = 0
    /\ aml = << >>
    /\ stack = << >>
    /\ processEntries = << >>
    /\ idCounter = 0
    /\ ret = 0
    /\ out = << >>
    /\ res = [status |-> 0, body |-> << >>]
    /\ second = [pc |-> "jsonToAml", build |-> << >>, aml |-> << >>]

NextShared ==
    \/ JsonToAml
    \/ BuildObject
    \/ BuildNestedProcess
    \/ FinishBuild
    \/ Switch

SpecShared == InitShared /\ [][NextShared]_vars

Returned == pc = "returned"

OutEntries == SubSeq(out, 2, Len(out))

Elements(en) ==
    SelectSeq(en.elementDataInformation, LAMBDA e :
        e.type \in OBJECT_TYPES /\ e.type # "fpb:SystemLimit")

Flows(en) ==
    SelectSeq(en.elementDataInformation, LAMBDA e : e.type \in CONNECTION_TYPES)

TandemKinds == {"fpb:ParallelFlow", "fpb:AlternativeFlow"}

\* two distinct tandem-kind edges of one entry with the same source and kind
TandemPair(fl, i, j) ==
    /\ i # j
    /\ fl[i].type \in TandemKinds
    /\ fl[j].type = fl[i].type
    /\ fl[j].sourceRef = fl[i].sourceRef

\* C2: in the output of amlToJson, for any two tandem-kind edges e1 and e2
\* with the same source and kind, e2 is listed in e1.inTandemWith exactly when
\* e1 is listed in e2.inTandemWith.
C2_TandemSymmetry ==
    \A n \in DOMAIN OutEntries :
        LET fl == Flows(OutEntries[n])
        IN  \A i, j \in DOMAIN fl :
                TandemPair(fl, i, j) =>
                    (Includes(fl[i].inTandemWith, fl[j].id)
                        <=> Includes(fl[j].inTandemWith, fl[i].id))

\* a returned document with two edges of one kind from one source that list
\* each other
C2_Witness ==
    /\ Returned
    /\ \E n \in DOMAIN OutEntries :
           LET fl == Flows(OutEntries[n])
           IN  \E i, j \in DOMAIN fl :
                   /\ TandemPair(fl, i, j)
                   /\ Includes(fl[i].inTandemWith, fl[j].id)
                   /\ Includes(fl[j].inTandemWith, fl[i].id)

\* C10: in the output of amlToJson, the inTandemWith of a tandem-kind edge
\* holds exactly the ids of the other edges of its entry that have the same
\* source and the same kind: never its own id, never an edge of another kind.
C10_TandemBySourceAndKind ==
    \A n \in DOMAIN OutEntries :
        LET fl == Flows(OutEntries[n])
        IN  \A i \in DOMAIN fl :
                fl[i].type \in TandemKinds =>
                    Range(fl[i].inTandemWith) =
                        { fl[j].id : j \in { k \in DOMAIN fl : TandemPair(fl, i, k) } }


(***************************************************************************)
(* The tree-form side of a property: the top-level Process container, its  *)
(* object children that have a graph type, and the port a link side names. *)
(* The j-th such child is the j-th element of the entry, and the entry's   *)
(* edges are in the order of the links that produced them.                 *)
(***************************************************************************)
StructuralError ==
    \/ Len(aml.InstanceHierarchy) = 0
    \/ \A i \in DOMAIN aml.InstanceHierarchy[1].InternalElement :
           aml.InstanceHierarchy[1].InternalElement[i].RefBaseSystemUnitPath # SUC_Process

RootIE ==
    LET top == aml.InstanceHierarchy[1].InternalElement
    IN  top[FindIndex(top, LAMBDA ie : ie.RefBaseSystemUnitPath = SUC_Process)]

RootEntry == out[Len(out)]

ElementClasses ==
    { ELEMENT_TO_SUC[t] : t \in OBJECT_TYPES \ {"fpb:SystemLimit"} }

ObjectChildren(p) ==
    SelectSeq(p.InternalElement, LAMBDA ie : ie.RefBaseSystemUnitPath \in ElementClasses)

HasPort(ie, ref) ==
    \E q \in DOMAIN ie.ExternalInterface :
        /\ ie.ExternalInterface[q].ID = ref
        /\ ie.ExternalInterface[q].RefBaseClassPath \in DOMAIN INTERFACE_TO_FLOW

\* the position among the object children of the owner of port ref; 0: no port
Owner(p, ref) == FindIndex(ObjectChildren(p), LAMBDA ie : HasPort(ie, ref))

PortClass(p, ref) ==
    LET ports == ObjectChildren(p)[Owner(p, ref)].ExternalInterface
    IN  ports[FindIndex(ports, LAMBDA x : x.ID = ref)].RefBaseClassPath

Tag(p, ref) == INTERFACE_TO_FLOW[PortClass(p, ref)].direction

Resolved(p, link) ==
    Owner(p, link.RefPartnerSideA) # 0 /\ Owner(p, link.RefPartnerSideB) # 0

\* the links of p that should produce an edge, given which links do
EdgeLinks(p, Produces(_)) == SelectSeq(p.InternalLink, Produces)

\* the edges of the entry are the links in edgeLinks, link by link, with the
\* endpoints that Source and Target name
EdgesAre(en, p, edgeLinks, Source(_), Target(_)) ==
    LET fl  == Flows(en)
        els == Elements(en)
    IN  /\ Len(fl) = Len(edgeLinks)
        /\ Len(els) = Len(ObjectChildren(p))
        /\ \A m \in DOMAIN fl :
               /\ fl[m].sourceRef = els[Owner(p, Source(edgeLinks[m]))].id
               /\ fl[m].targetRef = els[Owner(p, Target(edgeLinks[m]))].id

SideA(link) == link.RefPartnerSideA
SideB(link) == link.RefPartnerSideB

SameTag(p, link) == Tag(p, SideA(link)) = Tag(p, SideB(link))

\* the side of a link of two differently tagged ports that is tagged d
SideTagged(p, link, d) ==
    IF Tag(p, SideA(link)) = d THEN SideA(link) ELSE SideB(link)

\* C9: a link whose two resolved ports carry the same direction tag, or with
\* either port reference unresolved, produces no edge; for every other link
\* the side tagged out is the edge's sourceRef and the side tagged in its
\* targetRef, whichever of the two is side A.
C9_SameDirectionSkipped ==
    Returned =>
        EdgesAre(RootEntry, RootIE,
                 EdgeLinks(RootIE, LAMBDA l : Resolved(RootIE, l) /\ ~SameTag(RootIE, l)),
                 LAMBDA l : SideTagged(RootIE, l, "out"),
                 LAMBDA l : SideTagged(RootIE, l, "in"))

\* C9, as the code has it: a link with either port reference unresolved
\* produces no edge and every other link produces one.  With different tags
\* the side tagged out is the sourceRef and the side tagged in the targetRef,
\* whichever is side A; with both tagged out side A is the sourceRef and
\* side B the targetRef; with both tagged in side B is the sourceRef and
\* side A the targetRef.
C9_LinkResolution ==
    Returned =>
        EdgesAre(RootEntry, RootIE,
                 EdgeLinks(RootIE, LAMBDA l : Resolved(RootIE, l)),
                 LAMBDA l : IF ~SameTag(RootIE, l) THEN SideTagged(RootIE, l, "out")
                            ELSE IF Tag(RootIE, SideA(l)) = "out" THEN SideA(l)
                            ELSE SideB(l),
                 LAMBDA l : IF ~SameTag(RootIE, l) THEN SideTagged(RootIE, l, "in")
                            ELSE IF Tag(RootIE, SideA(l)) = "out" THEN SideB(l)
                            ELSE SideA(l))

\* a returned document from links of every resolved shape: side A tagged in
\* and side B out, and two ports of distinct elements with the same tag
C9_Witness ==
    /\ Returned
    /\ \E i, j \in DOMAIN RootIE.InternalLink :
           LET l == RootIE.InternalLink[i]
               s == RootIE.InternalLink[j]
           IN  /\ Resolved(RootIE, l) /\ Resolved(RootIE, s)
               /\ Tag(RootIE, SideA(l)) = "in" /\ Tag(RootIE, SideB(l)) = "out"
               /\ SameTag(RootIE, s)
               /\ Owner(RootIE, SideA(s)) # Owner(RootIE, SideB(s))
    /\ Len(Flows(RootEntry)) = 2


\* a link of p between a port of class FPD_Usage on an operator and a port of
\* class FPD_Usage on a resource, in either order of the sides
UsageLink(p, link) ==
    /\ Resolved(p, link)
    /\ PortClass(p, SideA(link)) = FLOW_TO_INTERFACE["fpb:Usage"].out
    /\ PortClass(p, SideB(link)) = FLOW_TO_INTERFACE["fpb:Usage"].out
    /\ { ObjectChildren(p)[Owner(p, SideA(link))].RefBaseSystemUnitPath,
         ObjectChildren(p)[Owner(p, SideB(link))].RefBaseSystemUnitPath }
           = { SUC_ProcessOperator, SUC_TechnicalResource }

\* the position among the edges of the entry of the edge of the k-th link
EdgeOfLink(p, k) ==
    Len(SelectSeq(SubSeq(p.InternalLink, 1, k), LAMBDA l : Resolved(p, l)))

\* the k-th link of p has its Usage edge in en, and the elements at its two
\* ends list each other in isAssignedTo
UsageDecoded(en, p, k) ==
    LET link == p.InternalLink[k]
        els  == Elements(en)
        fl   == Flows(en)
        a    == Owner(p, SideA(link))
        b    == Owner(p, SideB(link))
        m    == EdgeOfLink(p, k)
    IN  /\ m \in DOMAIN fl
        /\ fl[m].type = "fpb:Usage"
        /\ {fl[m].sourceRef, fl[m].targetRef} = {els[a].id, els[b].id}
        /\ Includes(els[a].isAssignedTo, els[b].id)
        /\ Includes(els[b].isAssignedTo, els[a].id)

\* no other element of the entry has the id of its j-th element
OnlyOneWithId(en, j) ==
    \A i \in DOMAIN Elements(en) : i # j => Elements(en)[i].id # Elements(en)[j].id

\* C3: for every Usage edge that the tree form encodes as a link between a
\* port of class FPD_Usage on an operator a and one on a resource b, amlToJson
\* produces that edge, and b.id is in a.isAssignedTo and a.id is in
\* b.isAssignedTo.
C3_UsageMutuality ==
    Returned =>
        \A k \in DOMAIN RootIE.InternalLink :
            UsageLink(RootIE, RootIE.InternalLink[k])
                => UsageDecoded(RootEntry, RootIE, k)

\* C3, for elements that decode to ids of their own: when no other element of
\* the process decodes to the id of a or to the id of b, amlToJson produces
\* the Usage edge and a and b list each other in isAssignedTo.
C3_UsageMutualityDistinctIds ==
    Returned =>
        \A k \in DOMAIN RootIE.InternalLink :
            LET link == RootIE.InternalLink[k]
            IN  ( /\ UsageLink(RootIE, link)
                  /\ OnlyOneWithId(RootEntry, Owner(RootIE, SideA(link)))
                  /\ OnlyOneWithId(RootEntry, Owner(RootIE, SideB(link))) )
                    => UsageDecoded(RootEntry, RootIE, k)

\* a returned document with a Usage link from the resource's port to the
\* operator's, both elements with ids of their own, decoded
C3_Witness ==
    /\ Returned
    /\ \E k \in DOMAIN RootIE.InternalLink :
           LET link == RootIE.InternalLink[k]
           IN  /\ UsageLink(RootIE, link)
               /\ ObjectChildren(RootIE)[Owner(RootIE, SideA(link))].RefBaseSystemUnitPath
                      = SUC_TechnicalResource
               /\ OnlyOneWithId(RootEntry, Owner(RootIE, SideA(link)))
               /\ OnlyOneWithId(RootEntry, Owner(RootIE, SideB(link)))
               /\ UsageDecoded(RootEntry, RootIE, k)


\* the positions <<n, j>> of the elements of the returned document that have
\* a decomposedView: the j-th element of the n-th entry
Holders ==
    { nj \in UNION { { <<n, j>> : j \in DOMAIN Elements(OutEntries[n]) } :
                     n \in DOMAIN OutEntries } :
        HasField(Elements(OutEntries[nj[1]])[nj[2]], "decomposedView") }

HolderAt(nj) == Elements(OutEntries[nj[1]])[nj[2]]

\* the entries whose process has the id c
EntriesWithId(c) == { k \in DOMAIN OutEntries : OutEntries[k].process.id = c }

\* every entry with a non-null isDecomposedProcessOperator = p is the
\* decomposedView of an element with the id p
EntriesAreViews ==
    \A k \in DOMAIN OutEntries :
        OutEntries[k].process.isDecomposedProcessOperator # 0 =>
            \E nj \in Holders :
                /\ HolderAt(nj).id = OutEntries[k].process.isDecomposedProcessOperator
                /\ HolderAt(nj).decomposedView = OutEntries[k].process.id

\* C4: in the output of amlToJson, for every element p with decomposedView = c
\* there is exactly one process entry whose process.id is c, and its
\* isDecomposedProcessOperator is p.id; conversely every process entry with a
\* non-null isDecomposedProcessOperator = p is the decomposedView of the
\* element with id p.
C4_ExactlyOneEntry ==
    Returned =>
        /\ \A nj \in Holders :
               /\ Cardinality(EntriesWithId(HolderAt(nj).decomposedView)) = 1
               /\ \A k \in EntriesWithId(HolderAt(nj).decomposedView) :
                      OutEntries[k].process.isDecomposedProcessOperator = HolderAt(nj).id
        /\ EntriesAreViews

\* C4, with the entries counted as the code produces them: for every element
\* p with decomposedView = c, c is p.id, there is a process entry whose
\* process.id is c, and every such entry has isDecomposedProcessOperator =
\* p.id; the entry is the only one when no other element with a
\* decomposedView has the id of p; and conversely as in C4.
C4_DecompositionLinkage ==
    Returned =>
        /\ \A nj \in Holders :
               LET p == HolderAt(nj)
               IN  /\ p.decomposedView = p.id
                   /\ EntriesWithId(p.decomposedView) # {}
                   /\ \A k \in EntriesWithId(p.decomposedView) :
                          OutEntries[k].process.isDecomposedProcessOperator = p.id
                   /\ (\A other \in Holders : other # nj => HolderAt(other).id # p.id)
                          => Cardinality(EntriesWithId(p.decomposedView)) = 1
        /\ EntriesAreViews

\* a returned document with a decomposition inside a decomposition, the two
\* operators with ids of their own
C4_Witness ==
    /\ Returned
    /\ \E nj \in Holders :
           /\ OutEntries[nj[1]].process.isDecomposedProcessOperator # 0
           /\ \A other \in Holders : other # nj => HolderAt(other).id # HolderAt(nj).id
           /\ Cardinality(EntriesWithId(HolderAt(nj).decomposedView)) = 1


\* C6: if the document has no instance hierarchy, or the first instance
\* hierarchy has no top-level Process container, amlToJson raises a failure
\* and returns no project header and no process entry: nothing of a result
\* reaches the caller, who is answered with the status 400.
C6_StructuralErrorsAbort ==
    StructuralError =>
        /\ pc = "thrown" \/ (pc = "amlToJson" /\ ENABLED AmlToJson)
        /\ out = << >>
        /\ processEntries = << >>
        /\ stack = << >>
        /\ res.status \in {0, 400}
        /\ res.body = << >>

\* a document whose second hierarchy, not its first, holds a Process
\* container, refused and answered with the status 400
C6_Witness ==
    /\ pc = "thrown"
    /\ res.status = 400
    /\ Len(aml.InstanceHierarchy) = 2
    /\ TopProcess(aml.InstanceHierarchy[2]) # 0

\* the links of the top-level Process container that name a port amlToJson
\* does not know
UnresolvedLinks ==
    SelectSeq(RootIE.InternalLink, LAMBDA l : ~Resolved(RootIE, l))

\* The part of C8 that is about failing: for every tree-form document whose
\* first instance hierarchy holds a top-level Process container, amlToJson
\* never fails and runs until it has returned a result; the entry has one
\* element per object child of a known class and one edge per resolved link.
C8_NeverAborts ==
    ~StructuralError =>
        /\ pc # "thrown"
        /\ res.status # 400
        /\ res.status = 200 \/ ENABLED Next
        /\ Returned =>
               /\ Len(out) >= 2
               /\ Len(Elements(RootEntry)) = Len(ObjectChildren(RootIE))
               /\ Len(Flows(RootEntry))
                      = Len(RootIE.InternalLink) - Len(UnresolvedLinks)

\* a returned document of a container with a link to a port of an unknown
\* class next to a link that resolves
C8_Witness ==
    /\ Returned
    /\ res.status = 200
    /\ Len(UnresolvedLinks) = 1
    /\ Len(Flows(RootEntry)) = 1
    /\ \E i \in DOMAIN RootIE.InternalElement :
           \E q \in DOMAIN RootIE.InternalElement[i].ExternalInterface :
               LET port == RootIE.InternalElement[i].ExternalInterface[q]
               IN  /\ port.RefBaseClassPath = IF_Other
                   /\ port.ID \in { SideA(UnresolvedLinks[1]), SideB(UnresolvedLinks[1]) }


\* the numbers of the visual records of an entry: the geometry of the
\* elements and the points of the edges
VisualNumbers(en) ==
    UNION { IF HasField(v, "waypoints")
            THEN UNION { {v.waypoints[w].x, v.waypoints[w].y} : w \in DOMAIN v.waypoints }
            ELSE {v.x, v.y, v.width, v.height} :
            v \in Range(en.elementVisualInformation) }

\* C8: for every tree-form document whose first instance hierarchy holds a
\* top-level Process container, amlToJson completes and returns a result,
\* whatever irregularities the document holds, and the affected element, edge
\* or field is skipped or omitted: an element of unknown class and an
\* unresolved link leave no record, and no field of a returned record holds
\* what a non-numeric coordinate was read as.
C8_ToleratedIrregularities ==
    /\ C8_NeverAborts
    /\ Returned =>
           \A n \in DOMAIN OutEntries :
               \A num \in VisualNumbers(OutEntries[n]) : ~num.nan


(***************************************************************************)
(* Properties of jsonToAml and of the round trip.                          *)
(***************************************************************************)
\* the document has a Project record whose entryPoint is the id of none of
\* its process entries
EntryPointDangling ==
    /\ \E n \in DOMAIN json : HasField(json[n], "type") /\ json[n].type = "fpb:Project"
    /\ \A n, m \in DOMAIN json :
           (HasField(json[n], "type") /\ json[n].type = "fpb:Project"
               /\ HasField(json[m], "process"))
           => json[m].process.id # json[n].entryPoint

\* C7: when project.entryPoint names no process entry of the input, jsonToAml
\* aborts the conversion with a failure and emits no output document.
C7_DanglingEntryPointAborts ==
    EntryPointDangling =>
        /\ pc \in {"jsonToAml", "jsonToAmlThrown"}
        /\ aml = << >>

\* C7, as the code has it: when project.entryPoint names no process entry,
\* jsonToAml does not fail; it returns a document whose InstanceHierarchy
\* holds no Process container, without building any element, and it is
\* amlToJson that fails when it is given that document.
C7_DanglingEntryPointReturnsEmptyHierarchy ==
    EntryPointDangling =>
        /\ pc \in {"jsonToAml", "built", "amlToJson", "thrown"}
        /\ pc # "jsonToAml" =>
               /\ Len(aml.InstanceHierarchy) = 1
               /\ aml.InstanceHierarchy[1].InternalElement = << >>
        /\ build = << >>
        /\ out = << >>

\* a document of two process entries with an entryPoint that names neither,
\* converted by jsonToAml and then refused by amlToJson
C7_Witness ==
    /\ EntryPointDangling
    /\ Len(SelectSeq(json, LAMBDA e : HasField(e, "process"))) = 2
    /\ pc = "thrown"
    /\ aml.InstanceHierarchy[1].InternalElement = << >>

\* the elements of an activation of buildProcess that have their element in
\* children: the objects before position i that are not the SystemLimit
Encoded(f) ==
    SelectSeq(SubSeq(f.objects, 1, f.i - 1), LAMBDA o : o.type # "fpb:SystemLimit")

\* their elements, in the same order
EncodedIEs(f) ==
    SelectSeq(f.children, LAMBDA ie :
        ie.RefBaseSystemUnitPath # ELEMENT_TO_SUC["fpb:SystemLimit"])

\* the edges of kind of the activation that leave the element obj, in the
\* order of the element list of the process
OutEdges(f, obj, kind) ==
    SelectSeq(f.flows, LAMBDA e : e.type = kind /\ e.sourceRef = obj.id)

\* the port recorded as the outgoing port of the edge
OutPortId(f, edge) ==
    LET at == { n \in DOMAIN f.linkMap : f.linkMap[n].flowId = edge.id }
    IN  IF at = {} THEN 0 ELSE f.linkMap[CHOOSE n \in at : TRUE].out

\* the ports of ie that are outgoing ports of edges of kind, in document order
OutPorts(f, obj, ie, kind) ==
    SelectSeq(ie.ExternalInterface, LAMBDA port :
        \E n \in DOMAIN OutEdges(f, obj, kind) :
            OutPortId(f, OutEdges(f, obj, kind)[n]) = port.ID)

\* the name of the m-th port of a base class: base, base1, base2, ...
NumberedName(base, m) == IF m = 1 THEN <<base>> ELSE <<base, m - 1>>

\* C5: when buildProcess encodes an element that is the source of k edges of
\* one kind, the k outgoing ports of that kind on the element are named base,
\* base1, ..., base(k-1) in the order the edges have in the element list of
\* the process, whatever ports of other base classes the element has and
\* whatever ports the other elements have.  (The ids of the document are
\* unique.)
C5_PortNumbering ==
    \A level \in DOMAIN build :
        LET f == build[level]
        IN  \A j \in DOMAIN EncodedIEs(f) : \A kind \in CONNECTION_TYPES :
                LET obj   == Encoded(f)[j]
                    edges == OutEdges(f, obj, kind)
                    ports == OutPorts(f, obj, EncodedIEs(f)[j], kind)
                    base  == BaseName(FLOW_TO_INTERFACE[kind].out)
                IN  /\ Len(ports) = Len(edges)
                    /\ \A m \in DOMAIN ports :
                           /\ ports[m].Name = NumberedName(base, m)
                           /\ ports[m].ID = OutPortId(f, edges[m])
                           /\ ports[m].RefBaseClassPath = FLOW_TO_INTERFACE[kind].out

\* an element encoded with two outgoing ports of one kind, named base and
\* base1, next to another element that has a port named base as well
C5_Witness ==
    \E level \in DOMAIN build :
        LET f == build[level]
        IN  \E j, i \in DOMAIN EncodedIEs(f) : \E kind \in CONNECTION_TYPES :
                LET ports == OutPorts(f, Encoded(f)[j], EncodedIEs(f)[j], kind)
                    base  == BaseName(FLOW_TO_INTERFACE[kind].out)
                IN  /\ i # j
                    /\ Len(ports) = 2
                    /\ ports[1].Name = <<base>>
                    /\ ports[2].Name = <<base, 1>>
                    /\ \E n \in DOMAIN EncodedIEs(f)[i].ExternalInterface :
                           EncodedIEs(f)[i].ExternalInterface[n].Name = <<base>>

(***************************************************************************)
(* The round trip.                                                         *)
(***************************************************************************)
Entries(doc) == SelectSeq(doc, LAMBDA e : HasField(e, "process"))

Nodes(en) == SelectSeq(en.elementDataInformation, LAMBDA e : e.type \in OBJECT_TYPES)

Ids(s) == { s[n].id : n \in DOMAIN s }

ById(s, id) == s[CHOOSE n \in DOMAIN s : s[n].id = id]

\* the ids a list-valued field holds; none when the record lacks the field
Listed(r, field) == IF HasField(r, field) THEN Range(r[field]) ELSE {}

\* the id a field holds; 0 when the record lacks the field
Ref(r, field) == IF HasField(r, field) THEN r[field] ELSE 0

EntryIds(doc) == { Entries(doc)[n].process.id : n \in DOMAIN Entries(doc) }

EntryOf(doc, id) ==
    Entries(doc)[CHOOSE n \in DOMAIN Entries(doc) : Entries(doc)[n].process.id = id]

\* every id of the document: processes, elements and edges
AllIds(doc) ==
    Concat(MapSeq(Entries(doc), LAMBDA en :
        <<en.process.id>> \o MapSeq(Nodes(en), LAMBDA e : e.id)
                          \o MapSeq(Flows(en), LAMBDA e : e.id)))

\* the elements an element is assigned to by the edges of its entry: its
\* partner on every Usage edge, and for a state the operators its other edges
\* join it to
Assigned(en, node) ==
    { IF e.sourceRef = node.id THEN e.targetRef ELSE e.sourceRef :
        e \in { g \in Range(Flows(en)) :
                  /\ node.id \in {g.sourceRef, g.targetRef}
                  /\ g.sourceRef \in Ids(Nodes(en))
                  /\ g.targetRef \in Ids(Nodes(en))
                  /\ \/ g.type = "fpb:Usage"
                     \/ /\ node.type \in StateTypes
                        /\ ById(Nodes(en),
                                IF g.sourceRef = node.id THEN g.targetRef
                                ELSE g.sourceRef).type = "fpb:ProcessOperator" } }

\* the invariants of the graph form
WellFormed(doc) ==
    /\ Cardinality({ n \in DOMAIN doc :
                       HasField(doc[n], "type") /\ doc[n].type = "fpb:Project" }) = 1
    /\ doc[Project(doc)].entryPoint \in EntryIds(doc)
    /\ \A n, m \in DOMAIN AllIds(doc) : AllIds(doc)[n] = AllIds(doc)[m] => n = m
    /\ \A en \in Range(Entries(doc)) :
        /\ \A e \in Range(Flows(en)) :
            /\ e.sourceRef \in Ids(Nodes(en))
            /\ e.targetRef \in Ids(Nodes(en))
            /\ \A node \in Range(Nodes(en)) :
                /\ e.id \in Listed(node, "outgoing") <=> node.id = e.sourceRef
                /\ e.id \in Listed(node, "incoming") <=> node.id = e.targetRef
            /\ e.type \in TandemKinds =>
                   Listed(e, "inTandemWith") =
                       { g.id : g \in { g \in Range(Flows(en)) :
                                          /\ g.id # e.id
                                          /\ g.type = e.type
                                          /\ g.sourceRef = e.sourceRef } }
        /\ \A node \in Range(Nodes(en)) :
            /\ node.type # "fpb:SystemLimit" =>
                   Listed(node, "isAssignedTo") = Assigned(en, node)
            /\ node.type = "fpb:SystemLimit" =>
                   Listed(node, "elementsContainer") =
                       (Ids(Nodes(en)) \ {node.id}) \cup Ids(Flows(en))
        /\ en.process.isDecomposedProcessOperator = 0 <=>
               en.process.id = doc[Project(doc)].entryPoint
        /\ en.process.isDecomposedProcessOperator # 0 =>
               Cardinality({ kn \in UNION { {k} \X (DOMAIN Nodes(Entries(doc)[k])) :
                                              k \in DOMAIN Entries(doc) } :
                   LET k == kn[1]
                       n == kn[2]
                   IN
                   /\ Nodes(Entries(doc)[k])[n].id = en.process.isDecomposedProcessOperator
                   /\ Nodes(Entries(doc)[k])[n].type = "fpb:ProcessOperator"
                   /\ Ref(Nodes(Entries(doc)[k])[n], "decomposedView") = en.process.id }) = 1

\* the one-to-one maps of A onto B that keep within the pairs of R
RECURSIVE Bijections(_, _, _)
Bijections(A, B, R) ==
    IF A = {} THEN (IF B = {} THEN { << >> } ELSE {})
    ELSE LET a == CHOOSE x \in A : TRUE
         IN  UNION { { (a :> b) @@ h : h \in Bijections(A \ {a}, B \ {b}, R) } :
                       b \in { y \in B : <<a, y>> \in R } }

Image(h, S) == { h[x] : x \in S }

\* the entries a and b coincide under the renaming hP of processes, hE of
\* elements and hF of edges
EntriesCoincide(docB, a, b, hP, hE, hF) ==
    /\ \A id \in DOMAIN hF :
           LET e == ById(Flows(a), id)
               g == ById(Flows(b), hF[id])
           IN  /\ g.type = e.type
               /\ g.sourceRef = hE[e.sourceRef]
               /\ g.targetRef = hE[e.targetRef]
               /\ HasField(g, "inTandemWith") <=> HasField(e, "inTandemWith")
               /\ Listed(g, "inTandemWith") = Image(hF, Listed(e, "inTandemWith"))
    /\ \A id \in DOMAIN hE :
           LET node  == ById(Nodes(a), id)
               node2 == ById(Nodes(b), hE[id])
           IN  /\ Listed(node2, "isAssignedTo") = Image(hE, Listed(node, "isAssignedTo"))
               /\ Listed(node2, "elementsContainer") =
                      { IF x \in DOMAIN hE THEN hE[x] ELSE hF[x] :
                          x \in Listed(node, "elementsContainer") }
               /\ Ref(node2, "decomposedView") = 0 <=> Ref(node, "decomposedView") = 0
               /\ Ref(node, "decomposedView") # 0 =>
                      /\ Ref(node2, "decomposedView") = hP[node.decomposedView]
                      /\ EntryOf(docB, hP[node.decomposedView])
                             .process.isDecomposedProcessOperator = hE[id]
    /\ b.process.isDecomposedProcessOperator = 0 <=>
           a.process.isDecomposedProcessOperator = 0

\* docB is docA up to the renaming of process, element and edge identifiers
Isomorphic(docA, docB) ==
    /\ Len(Entries(docA)) = Len(Entries(docB))
    /\ \E hP \in Bijections(EntryIds(docA), EntryIds(docB),
                            EntryIds(docA) \X EntryIds(docB)) :
        /\ hP[docA[Project(docA)].entryPoint] = docB[Project(docB)].entryPoint
        /\ \A p \in EntryIds(docA) :
            LET a == EntryOf(docA, p)
                b == EntryOf(docB, hP[p])
            IN  /\ Len(Nodes(a)) = Len(Nodes(b))
                /\ Len(Flows(a)) = Len(Flows(b))
                /\ \E hE \in Bijections(Ids(Nodes(a)), Ids(Nodes(b)),
                        { <<x, y>> \in Ids(Nodes(a)) \X Ids(Nodes(b)) :
                            ById(Nodes(a), x).type = ById(Nodes(b), y).type }) :
                   \E hF \in Bijections(Ids(Flows(a)), Ids(Flows(b)),
                        { <<x, y>> \in Ids(Flows(a)) \X Ids(Flows(b)) :
                            ById(Flows(a), x).type = ById(Flows(b), y).type }) :
                       EntriesCoincide(docB, a, b, hP, hE, hF)

\* C1: for every graph-form document that satisfies the invariants of the
\* graph form, amlToJson(jsonToAml(doc)) is doc up to identifier renaming:
\* under a one-to-one renaming of element, edge and process identifiers every
\* edge's kind, sourceRef and targetRef, every inTandemWith set, every
\* isAssignedTo set, every decomposedView / isDecomposedProcessOperator pair
\* and every SystemLimit's elementsContainer membership coincide.
C1_RoundTrip ==
    (Returned /\ WellFormed(json)) => Isomorphic(json, out)

\* two edges of an entry that leave one element, one a ParallelFlow and the
\* other an AlternativeFlow
MixedTandem(doc) ==
    \E en \in Range(Entries(doc)) : \E e, g \in Range(Flows(en)) :
        /\ e.type = "fpb:ParallelFlow"
        /\ g.type = "fpb:AlternativeFlow"
        /\ e.sourceRef = g.sourceRef

\* The round trip where the grouping of tandem edges by source alone cannot
\* show: the documents of C1 that have no element with both a ParallelFlow
\* and an AlternativeFlow leaving it.
RoundTripWithoutMixedTandem ==
    (Returned /\ WellFormed(json) /\ ~MixedTandem(json)) => Isomorphic(json, out)

\* such a document, with edges of a tandem kind and a decomposed operator,
\* has been through both conversions
RoundTripReturned ==
    /\ Returned
    /\ WellFormed(json)
    /\ ~MixedTandem(json)
    /\ Len(Entries(json)) > 1
    /\ \E e \in Range(Flows(Entries(json)[1])) : Listed(e, "inTandemWith") # {}

(***************************************************************************)
(* Edges, elements and identifiers in the output of amlToJson.             *)
(***************************************************************************)
\* every edge of the returned document, over all process entries
OutFlows == Concat(MapSeq(OutEntries, Flows))

\* C11: in the output of amlToJson an edge of kind Flow or Usage never has an
\* inTandemWith field, also when it shares its source with ParallelFlow or
\* AlternativeFlow edges, and its id never appears in the inTandemWith of
\* another edge.
C11_FlowAndUsageOutsideTandem ==
    \A i \in DOMAIN OutFlows :
        OutFlows[i].type \in {"fpb:Flow", "fpb:Usage"} =>
            /\ ~HasField(OutFlows[i], "inTandemWith")
            /\ \A j \in DOMAIN OutFlows :
                   HasField(OutFlows[j], "inTandemWith") =>
                       ~Includes(OutFlows[j].inTandemWith, OutFlows[i].id)

\* a returned document in which a Flow edge leaves the element that two
\* ParallelFlow edges listing each other leave
C11_Witness ==
    /\ Returned
    /\ \E i, j, k \in DOMAIN OutFlows :
           /\ OutFlows[i].type = "fpb:Flow"
           /\ OutFlows[j].type = "fpb:ParallelFlow"
           /\ OutFlows[k].type = "fpb:ParallelFlow"
           /\ OutFlows[j].sourceRef = OutFlows[i].sourceRef
           /\ OutFlows[k].sourceRef = OutFlows[i].sourceRef
           /\ OutFlows[j].inTandemWith = << OutFlows[k].id >>
           /\ OutFlows[k].inTandemWith = << OutFlows[j].id >>

\* the places of the id in the lists field (outgoing or incoming) of the
\* element records els: <<n, m>> when els[n][field][m] is the id
Places(els, field, id) ==
    { nm \in UNION { {n} \X (DOMAIN els[n][field]) :
                       n \in { k \in DOMAIN els : HasField(els[k], field) } } :
        els[nm[1]][field][nm[2]] = id }

\* every edge of edges is once in the outgoing of one element of els, whose id
\* is its sourceRef, and once in the incoming of one, whose id is its targetRef
EdgesListedOnce(els, edges) ==
    \A i \in DOMAIN edges :
        /\ Cardinality(Places(els, "outgoing", edges[i].id)) = 1
        /\ \A nm \in Places(els, "outgoing", edges[i].id) :
               els[nm[1]].id = edges[i].sourceRef
        /\ Cardinality(Places(els, "incoming", edges[i].id)) = 1
        /\ \A nm \in Places(els, "incoming", edges[i].id) :
               els[nm[1]].id = edges[i].targetRef

\* C12: after amlToJson has processed any sequence of links of a process,
\* every edge id created so far appears exactly once in the outgoing list of
\* exactly one element, and the id of that element is the edge's sourceRef,
\* and exactly once in the incoming list of exactly one element, and the id of
\* that element is the edge's targetRef.  This is so in every activation of
\* parseProcess and in every finished process entry.
C12_EdgeListedOnceEachWay ==
    /\ \A level \in DOMAIN stack :
           EdgesListedOnce(stack[level].elementDataInformation, stack[level].flowDataMap)
    /\ \A n \in DOMAIN processEntries :
           EdgesListedOnce(processEntries[n].elementDataInformation,
                           Flows(processEntries[n]))
    /\ \A n \in DOMAIN OutEntries :
           EdgesListedOnce(OutEntries[n].elementDataInformation, Flows(OutEntries[n]))

\* an activation that has made two edges and has a link still to process
C12_Witness ==
    /\ pc = "parseProcess"
    /\ Len(stack) > 0
    /\ Len(Top.flowDataMap) = 2
    /\ Top.k <= Len(Top.links)
    /\ \E n \in DOMAIN Top.elementDataInformation :
           /\ HasField(Top.elementDataInformation[n], "outgoing")
           /\ Len(Top.elementDataInformation[n].outgoing) = 2

\* the records of the returned document that carry an id: of every process
\* entry the process record, the element records and the edge records
OutRecords ==
    Concat(MapSeq(OutEntries, LAMBDA en :
        << en.process >> \o en.elementDataInformation))

\* an element record whose id is the uniqueIdent of its identity block
Copied(r) ==
    /\ r.type \in OBJECT_TYPES
    /\ HasField(r, "identification")
    /\ r.identification.uniqueIdent = r.id

\* the process record of a nested Process: its id is the id of its operator
Nested(r) ==
    /\ r.type = "fpb:Process"
    /\ r.isDecomposedProcessOperator # 0
    /\ r.isDecomposedProcessOperator = r.id

\* an element record that holds a nested Process
Holder(r) ==
    /\ r.type \in OBJECT_TYPES
    /\ HasField(r, "decomposedView")
    /\ r.decomposedView = r.id

\* C13: every identifier in the document amlToJson returns (process ids,
\* element ids, edge ids, over all process entries) is globally unique: no
\* two distinct records of the output carry the same id.
C13_IdsGloballyUnique ==
    \A i, j \in DOMAIN OutRecords :
        OutRecords[i].id = OutRecords[j].id => i = j

\* C13, as the code has it: two distinct records of the output carry the same
\* id only if one is the process record of a nested Process and the other the
\* element that holds it, or if each of them is an element that took its id
\* from the uniqueIdent of its identity block or the process record of a
\* nested Process of such an element.  Every id the generator supplied for a
\* SystemLimit, an edge, the top-level process or an element without an
\* identity block and without a nested Process is carried by one record only.
C13_IdsUniqueButCopiedAndNested ==
    \A i, j \in DOMAIN OutRecords :
        (i # j /\ OutRecords[i].id = OutRecords[j].id) =>
            \/ Nested(OutRecords[i]) /\ Holder(OutRecords[j])
            \/ Holder(OutRecords[i]) /\ Nested(OutRecords[j])
            \/ /\ Copied(OutRecords[i]) \/ Nested(OutRecords[i])
               /\ Copied(OutRecords[j]) \/ Nested(OutRecords[j])

\* a returned document in which a nested process carries the generated id of
\* its operator, next to an edge or SystemLimit with an id of its own
C13_Witness ==
    /\ Returned
    /\ \E i, j \in DOMAIN OutRecords :
           /\ Nested(OutRecords[i])
           /\ Holder(OutRecords[j])
           /\ ~HasField(OutRecords[j], "identification")
           /\ OutRecords[i].id = OutRecords[j].id
    /\ \E i \in DOMAIN OutRecords : OutRecords[i].type = "fpb:SystemLimit"

\* the number of places of s that hold v
Count(s, v) == Cardinality({ n \in DOMAIN s : s[n] = v })

\* the edge joins the element records a and b, in either direction
Joins(edge, a, b) ==
    \/ edge.sourceRef = a.id /\ edge.targetRef = b.id
    \/ edge.sourceRef = b.id /\ edge.targetRef = a.id

\* no other element of the entry has the id of the element record r
OnlyRecordWithId(en, r) ==
    Cardinality({ n \in DOMAIN Elements(en) : Elements(en)[n].id = r.id }) = 1

\* in the entry, every state joined to an operator by a non-Usage edge lists
\* the operator's id once, where Unambiguous admits the pair of elements
StatesRecordOperators(en, Unambiguous(_, _)) ==
    \A i, j \in DOMAIN Elements(en) : \A m \in DOMAIN Flows(en) :
        LET state    == Elements(en)[i]
            operator == Elements(en)[j]
            edge     == Flows(en)[m]
        IN  ( /\ state.type \in StateTypes
              /\ operator.type = "fpb:ProcessOperator"
              /\ edge.type # "fpb:Usage"
              /\ Joins(edge, state, operator)
              /\ Unambiguous(state, operator) )
                => Count(state.isAssignedTo, operator.id) = 1

\* in the entry, an operator lists only ids of elements that a Usage edge
\* joins it to
OperatorsRecordUsageOnly(en) ==
    \A j \in DOMAIN Elements(en) :
        LET operator == Elements(en)[j]
        IN  operator.type = "fpb:ProcessOperator" =>
                \A n \in DOMAIN operator.isAssignedTo :
                    \E m \in DOMAIN Flows(en) : \E i \in DOMAIN Elements(en) :
                        /\ Flows(en)[m].type = "fpb:Usage"
                        /\ Elements(en)[i].id = operator.isAssignedTo[n]
                        /\ Joins(Flows(en)[m], operator, Elements(en)[i])

\* C14: in the output of amlToJson, for every non-Usage edge between a state
\* and a ProcessOperator, in either direction, the state's isAssignedTo holds
\* the operator's id exactly once, and the operator's isAssignedTo does not
\* gain the state's id: an operator's isAssignedTo holds only ids of elements
\* joined to it by a Usage edge.
C14_StateRecordsOperator ==
    \A n \in DOMAIN OutEntries :
        /\ StatesRecordOperators(OutEntries[n], LAMBDA s, o : TRUE)
        /\ OperatorsRecordUsageOnly(OutEntries[n])

\* C14, for elements with ids of their own: when no other element of the
\* process has the id of the state or the id of the operator, the state's
\* isAssignedTo holds the operator's id exactly once; and in every case an
\* operator's isAssignedTo holds only ids of elements joined to it by a Usage
\* edge.
C14_StateRecordsOperatorDistinctIds ==
    \A n \in DOMAIN OutEntries :
        /\ StatesRecordOperators(OutEntries[n], LAMBDA s, o :
               OnlyRecordWithId(OutEntries[n], s) /\ OnlyRecordWithId(OutEntries[n], o))
        /\ OperatorsRecordUsageOnly(OutEntries[n])

\* a returned document with two Flow edges from an operator to a state, both
\* with ids of their own: the state lists the operator once, the operator
\* lists nothing
C14_Witness ==
    /\ Returned
    /\ \E n \in DOMAIN OutEntries : \E i, j \in DOMAIN Elements(OutEntries[n]) :
           LET en       == OutEntries[n]
               state    == Elements(en)[i]
               operator == Elements(en)[j]
           IN  /\ state.type \in StateTypes
               /\ operator.type = "fpb:ProcessOperator"
               /\ state.id # operator.id
               /\ Len(Flows(en)) = 2
               /\ \A m \in DOMAIN Flows(en) :
                      /\ Flows(en)[m].type = "fpb:Flow"
                      /\ Flows(en)[m].sourceRef = operator.id
                      /\ Flows(en)[m].targetRef = state.id
               /\ state.isAssignedTo = << operator.id >>
               /\ operator.isAssignedTo = << >>

\* the SystemLimit records of an entry
SystemLimits(en) ==
    SelectSeq(en.elementDataInformation, LAMBDA e : e.type = "fpb:SystemLimit")

\* C15: in every process entry produced by amlToJson that has a SystemLimit,
\* the SystemLimit's elementsContainer does not contain the SystemLimit's own
\* id and is the list of the ids of the elements of the process in child
\* order followed by the ids of its edges in link order, every element and
\* every edge once.
C15_ElementsContainer ==
    \A n \in DOMAIN OutEntries :
        \A s \in DOMAIN SystemLimits(OutEntries[n]) :
            LET en == OutEntries[n]
                sl == SystemLimits(en)[s]
            IN  /\ ~Includes(sl.elementsContainer, sl.id)
                /\ sl.elementsContainer =
                       MapSeq(Elements(en), LAMBDA e : e.id)
                           \o MapSeq(Flows(en), LAMBDA e : e.id)
                /\ sl.id = en.process.consistsOfSystemLimit

\* a returned document whose SystemLimit bounds two elements and two edges
C15_Witness ==
    /\ Returned
    /\ \E n \in DOMAIN OutEntries :
           /\ Len(SystemLimits(OutEntries[n])) = 1
           /\ Len(Elements(OutEntries[n])) = 2
           /\ Len(Flows(OutEntries[n])) = 2
           /\ Len(SystemLimits(OutEntries[n])[1].elementsContainer) = 4

(***************************************************************************)
(* Conversions that share their input.                                     *)
(***************************************************************************)
RECURSIVE IdsOfIE(_)
IdsOfIE(ie) ==
    {ie.ID}
    \cup { ie.ExternalInterface[k].ID : k \in DOMAIN ie.ExternalInterface }
    \cup UNION { IdsOfIE(ie.InternalElement[k]) : k \in DOMAIN ie.InternalElement }

\* the identifiers jsonToAml drew for the elements and ports of a document
IdsOfDoc(doc) ==
    UNION { UNION { IdsOfIE(doc.InstanceHierarchy[h].InternalElement[k]) :
                      k \in DOMAIN doc.InstanceHierarchy[h].InternalElement } :
              h \in DOMAIN doc.InstanceHierarchy }

\* the place of a drawn identifier among those of its document, in the order
\* they were drawn: uuidv4 gives -1, -2, ...
Rank(ids, id) == Cardinality({ j \in ids : j >= id })

RECURSIVE RankedIE(_, _)
RankedIE(ie, ids) ==
    [ID |-> Rank(ids, ie.ID),
     RefBaseSystemUnitPath |-> ie.RefBaseSystemUnitPath,
     Identification    |-> ie.Identification,
     Visual            |-> ie.Visual,
     ExternalInterface |-> [k \in DOMAIN ie.ExternalInterface |->
                               [ie.ExternalInterface[k] EXCEPT !.ID = Rank(ids, @)]],
     InternalElement   |-> [k \in DOMAIN ie.InternalElement |->
                               RankedIE(ie.InternalElement[k], ids)],
     InternalLink      |-> [k \in DOMAIN ie.InternalLink |->
                               [ie.InternalLink[k] EXCEPT
                                   !.RefPartnerSideA = Rank(ids, @),
                                   !.RefPartnerSideB = Rank(ids, @)]]]

\* a document with every drawn identifier replaced by its place: two
\* documents are the same up to the identifiers drawn when these are equal
Ranked(doc) ==
    [InstanceHierarchy |->
        [h \in DOMAIN doc.InstanceHierarchy |->
            [InternalElement |->
                [k \in DOMAIN doc.InstanceHierarchy[h].InternalElement |->
                    RankedIE(doc.InstanceHierarchy[h].InternalElement[k],
                             IdsOfDoc(doc))]]]]

\* what a conversion that has returned gave: the document of jsonToAml run
\* alone on json, up to the identifiers drawn
AsAlone(doc) == Ranked(doc) = Ranked(jsonToAml(json, 0))

SharedResults ==
    /\ pc = "built" => AsAlone(aml)
    /\ second.pc = "built" => AsAlone(second.aml)

\* C16: no step of jsonToAml changes the document it was given, and of two
\* conversions of one document whose steps are taken in any order each
\* returns what it returns when it runs alone, up to the identifiers drawn.
C16_SharedInputUnchanged == [][json' = json]_vars /\ []SharedResults

\* both conversions have returned a process with links, and each drew
\* identifiers between two draws of the other
C16_Witness ==
    /\ pc = "built"
    /\ second.pc = "built"
    /\ Len(aml.InstanceHierarchy[1].InternalElement[1].InternalLink) > 0
    /\ \E a \in IdsOfDoc(aml), b1, b2 \in IdsOfDoc(second.aml) : b1 < a /\ a < b2
    /\ \E b \in IdsOfDoc(second.aml), a1, a2 \in IdsOfDoc(aml) : a1 < b /\ b < a2

(***************************************************************************)
(* The mapping tables.                                                     *)
(***************************************************************************)
NodeKinds == OBJECT_TYPES \cup {"fpb:Process"}

\* the tables have an entry for each node kind and each edge kind, and
\* SUC_TO_ELEMENT inverts ELEMENT_TO_SUC
NodeTablesInverse ==
    /\ NodeKinds \subseteq DOMAIN ELEMENT_TO_SUC
    /\ CONNECTION_TYPES \subseteq DOMAIN FLOW_TO_INTERFACE
    /\ \A t \in NodeKinds :
           /\ ELEMENT_TO_SUC[t] \in DOMAIN SUC_TO_ELEMENT
           /\ SUC_TO_ELEMENT[ELEMENT_TO_SUC[t]] = t

\* INTERFACE_TO_FLOW holds the edge kind and the direction for the class
IsTagged(class, k, direction) ==
    /\ class \in DOMAIN INTERFACE_TO_FLOW
    /\ INTERFACE_TO_FLOW[class] = [flowType |-> k, direction |-> direction]

RECURSIVE ClassesOfIE(_)
ClassesOfIE(ie) ==
    { ie.ExternalInterface[k].RefBaseClassPath : k \in DOMAIN ie.ExternalInterface }
    \cup UNION { ClassesOfIE(ie.InternalElement[k]) : k \in DOMAIN ie.InternalElement }

\* the classes of the ports of a tree-form document, those amlToJson looks up
PortClasses(doc) ==
    UNION { UNION { ClassesOfIE(doc.InstanceHierarchy[h].InternalElement[k]) :
                      k \in DOMAIN doc.InstanceHierarchy[h].InternalElement } :
              h \in DOMAIN doc.InstanceHierarchy }

\* C17 as stated: SUC_TO_ELEMENT[ELEMENT_TO_SUC[t]] = t for the six node kinds
\* and Process, and for each edge kind k the lookup by port class maps
\* FLOW_TO_INTERFACE[k].out to (k, out) and FLOW_TO_INTERFACE[k].in to (k, in),
\* for the tables and for the class of every port of the document amlToJson
\* is given.
C17_TablesMutuallyInverse ==
    /\ NodeTablesInverse
    /\ \A k \in CONNECTION_TYPES :
           /\ IsTagged(FLOW_TO_INTERFACE[k].out, k, "out")
           /\ IsTagged(FLOW_TO_INTERFACE[k].in, k, "in")
    /\ \A class \in PortClasses(aml), k \in CONNECTION_TYPES :
           /\ class = FLOW_TO_INTERFACE[k].out => IsTagged(class, k, "out")
           /\ class = FLOW_TO_INTERFACE[k].in => IsTagged(class, k, "in")

\* C17, amended: the node tables are inverse; the lookup by port class maps
\* FLOW_TO_INTERFACE[k].out to (k, out) for each edge kind k, and
\* FLOW_TO_INTERFACE[k].in to (k, in) for the kinds whose two classes differ.
\* Usage has one class for both ports, which the lookup maps to (Usage, out).
\* The same for the class of every port of the document amlToJson is given.
C17_TablesInverseButUsageIn ==
    /\ NodeTablesInverse
    /\ \A k \in CONNECTION_TYPES :
           /\ IsTagged(FLOW_TO_INTERFACE[k].out, k, "out")
           /\ IsTagged(FLOW_TO_INTERFACE[k].in, k,
                       IF FLOW_TO_INTERFACE[k].in # FLOW_TO_INTERFACE[k].out
                       THEN "in" ELSE "out")
    /\ \A class \in PortClasses(aml), k \in CONNECTION_TYPES :
           /\ class = FLOW_TO_INTERFACE[k].out => IsTagged(class, k, "out")
           /\ class = FLOW_TO_INTERFACE[k].in /\ class # FLOW_TO_INTERFACE[k].out
                  => IsTagged(class, k, "in")

\* amlToJson has returned a Usage edge: it looked up the class of the port on
\* side B of a link, the one class of both ports of a Usage edge
C17_Witness ==
    /\ Returned
    /\ \E h \in DOMAIN aml.InstanceHierarchy :
         \E p \in DOMAIN aml.InstanceHierarchy[h].InternalElement :
           LET proc == aml.InstanceHierarchy[h].InternalElement[p]
           IN  \E l \in DOMAIN proc.InternalLink, e \in DOMAIN proc.InternalElement :
                 \E q \in DOMAIN proc.InternalElement[e].ExternalInterface :
                   LET port == proc.InternalElement[e].ExternalInterface[q]
                   IN  /\ port.ID = proc.InternalLink[l].RefPartnerSideB
                       /\ port.RefBaseClassPath = FLOW_TO_INTERFACE["fpb:Usage"].in
    /\ \E i \in DOMAIN OutFlows : OutFlows[i].type = "fpb:Usage"

(***************************************************************************)
(* The geometry of the ports jsonToAml emits.                              *)
(***************************************************************************)
\* the original sub-point of a waypoint if it has one, else the waypoint
Preferred(wp) == IF "original" \in DOMAIN wp THEN wp.original ELSE wp

\* a point as the coordinate attribute of a port
Coordinate(point) ==
    << [x |-> addDoubleSubAttr(point, "x"), y |-> addDoubleSubAttr(point, "y")] >>

\* points as the auxiliary waypoints FPD_Waypoint, FPD_Waypoint1, ... of a
\* port, index being the suffix of the name
Auxiliary(points) ==
    [j \in DOMAIN points |-> [index |-> j - 1, position |-> Coordinate(points[j])]]

\* the waypoints between the first and the last
Interior(waypoints) == SubSeq(waypoints, 2, Len(waypoints) - 1)

\* those of them that are not flagged original
UnflaggedInterior(waypoints) ==
    SelectSeq(Interior(waypoints), LAMBDA wp : "original" \notin DOMAIN wp)

\* the edges of an activation with a visual record of at least one waypoint:
\* the entry of linkMap and the waypoints
Drawn(f) ==
    { d \in [entry : Range(f.linkMap),
             waypoints : { f.evi[v].waypoints :
                             v \in { v \in DOMAIN f.evi : HasField(f.evi[v], "waypoints") } }] :
        LET visual == VisualMapGet(f.evi, d.entry.flowId)
        IN  /\ Len(visual) > 0
            /\ HasField(visual[1], "waypoints")
            /\ visual[1].waypoints = d.waypoints
            /\ Len(d.waypoints) >= 1 }

\* the ports an activation has emitted so far
PortsOf(f) ==
    UNION { Range(f.children[c].ExternalInterface) : c \in DOMAIN f.children }

\* the ports of every activation carry the geometry of their edges, the
\* outgoing port having Carried(waypoints) as its auxiliary waypoints
PortGeometry(Carried(_)) ==
    \A level \in DOMAIN build : \A d \in Drawn(build[level]) :
        \A port \in PortsOf(build[level]) :
            /\ port.ID = d.entry.out =>
                   /\ port.PortCoordinate = Coordinate(Preferred(d.waypoints[1]))
                   /\ port.Waypoints = Auxiliary(Carried(d.waypoints))
            /\ port.ID = d.entry.in =>
                   port.PortCoordinate =
                       Coordinate(Preferred(d.waypoints[Len(d.waypoints)]))

\* C18 as stated: for an edge with a visual record of n >= 1 waypoints the
\* coordinate of the outgoing port is the first waypoint, its original
\* sub-point if present, that of the incoming port the last waypoint with the
\* same preference, and the outgoing port carries every interior waypoint, in
\* order, as FPD_Waypoint, FPD_Waypoint1, ... without gaps.
C18_PortsCarryEveryInteriorWaypoint == PortGeometry(Interior)

\* C18, amended: the same, the outgoing port carrying the interior waypoints
\* that are not flagged original; a flagged interior waypoint is left out and
\* takes no number.
C18_PortsCarryUnflaggedInteriorWaypoints == PortGeometry(UnflaggedInterior)

\* both ports of an edge of four waypoints are emitted, the first and the last
\* flagged original: the outgoing port carries FPD_Waypoint and FPD_Waypoint1
C18_Witness ==
    \E level \in DOMAIN build : \E d \in Drawn(build[level]) :
        \E outPort, inPort \in PortsOf(build[level]) :
            /\ Len(d.waypoints) = 4
            /\ HasField(d.waypoints[1], "original")
            /\ HasField(d.waypoints[4], "original")
            /\ outPort.ID = d.entry.out
            /\ inPort.ID = d.entry.in
            /\ Len(outPort.Waypoints) = 2
            /\ outPort.Waypoints[2].index = 1

(***************************************************************************)
(* The waypoints amlToJson gives the edges it decodes.                     *)
(***************************************************************************)
\* the port of p a link side names
PortOf(p, ref) ==
    LET ports == ObjectChildren(p)[Owner(p, ref)].ExternalInterface
    IN  ports[FindIndex(ports, LAMBDA x : x.ID = ref)]

\* a coordinate attribute holds a point: both of its values are numbers
HoldsPoint(coordinate) ==
    /\ Len(coordinate) > 0
    /\ coordinate[1].x.k = "num"
    /\ coordinate[1].y.k = "num"

PointHeld(coordinate) == [x |-> Num(coordinate[1].x.v), y |-> Num(coordinate[1].y.v)]

\* the coordinate of a port as a waypoint flagged original, if it holds a point
FlaggedOriginal(port) ==
    IF HoldsPoint(port.PortCoordinate)
    THEN << [original |-> PointHeld(port.PortCoordinate),
             x |-> PointHeld(port.PortCoordinate).x,
             y |-> PointHeld(port.PortCoordinate).y] >>
    ELSE << >>

\* the attributes among s with a suffix up to i, by ascending suffix, those
\* of one suffix in document order
RECURSIVE BySuffix(_, _)
BySuffix(s, i) ==
    IF i < 0 THEN << >>
    ELSE BySuffix(s, i - 1) \o SelectSeq(s, LAMBDA a : a.index = i)

\* the auxiliary waypoints of a port that hold a point, by ascending suffix
AuxiliaryAscending(port) ==
    LET holding == SelectSeq(port.Waypoints, LAMBDA a : HoldsPoint(a.position))
    IN  MapSeq(BySuffix(holding, MaxLinks + 1), LAMBDA a : PointHeld(a.position))

\* the waypoint list of the edge of a link: source port, auxiliary waypoints
\* of the source port, target port
WaypointsOf(p, link) ==
    LET source == PortOf(p, SideTagged(p, link, "out"))
        target == PortOf(p, SideTagged(p, link, "in"))
    IN  FlaggedOriginal(source) \o AuxiliaryAscending(source) \o FlaggedOriginal(target)

\* the visual records of an entry for the id
VisualsOf(en, id) == SelectSeq(en.elementVisualInformation, LAMBDA v : v.id = id)

\* the edges of the root entry, one for each link with both ports resolved,
\* have the waypoint lists of their links, and a visual record exactly when
\* the list is not empty
WaypointsRebuilt ==
    LET links == EdgeLinks(RootIE, LAMBDA l : Resolved(RootIE, l))
        fl    == Flows(RootEntry)
    IN  /\ Len(fl) = Len(links)
        /\ \A m \in DOMAIN fl :
               LET expected == WaypointsOf(RootIE, links[m])
                   visuals  == VisualsOf(RootEntry, fl[m].id)
               IN  /\ Len(visuals) = (IF Len(expected) > 0 THEN 1 ELSE 0)
                   /\ Len(visuals) = 1 => visuals[1].waypoints = expected

\* the document is what jsonToAml returns for a document with one edge of two
\* waypoints
EncodedFromTwoWaypoints ==
    \E doc \in WaypointDocs :
        /\ Len(doc[2].elementVisualInformation[4].waypoints) = 2
        /\ aml = jsonToAml(doc, 0)

\* C19: when amlToJson has returned, the waypoint list of every decoded edge
\* is the coordinate of its source port flagged original (if present), then
\* the auxiliary waypoints of the source port by ascending suffix of their
\* names whatever their order in the document, then the coordinate of its
\* target port flagged original (if present); the edge has a visual record
\* exactly when the list is not empty; and the edge of a document encoded
\* from two waypoints has a list of two waypoints, both flagged original.
C19_WaypointsRebuilt ==
    Returned /\ ~StructuralError =>
        /\ WaypointsRebuilt
        /\ EncodedFromTwoWaypoints =>
               \A m \in DOMAIN Flows(RootEntry) :
                   LET visuals == VisualsOf(RootEntry, Flows(RootEntry)[m].id)
                   IN  /\ Len(visuals) = 1
                       /\ Len(visuals[1].waypoints) = 2
                       /\ HasField(visuals[1].waypoints[1], "original")
                       /\ HasField(visuals[1].waypoints[2], "original")

\* a returned edge of five waypoints whose three auxiliary waypoints stood in
\* the document in descending order of their suffixes
C19_Witness ==
    /\ Returned
    /\ ~StructuralError
    /\ \E l \in DOMAIN RootIE.InternalLink :
           LET link == RootIE.InternalLink[l]
           IN  /\ Resolved(RootIE, link)
               /\ LET aux == PortOf(RootIE, SideTagged(RootIE, link, "out")).Waypoints
                  IN  /\ Len(aux) = 3
                      /\ aux[1].index > aux[2].index
                      /\ aux[2].index > aux[3].index
    /\ \E v \in DOMAIN RootEntry.elementVisualInformation :
           /\ HasField(RootEntry.elementVisualInformation[v], "waypoints")
           /\ Len(RootEntry.elementVisualInformation[v].waypoints) = 5

(***************************************************************************)
(* The links jsonToAml emits.                                              *)
(***************************************************************************)
\* the entry of the process at the entryPoint of json and the Process
\* container built for it
EntryPointEntry ==
    ProcessMapGet(ProcessEntriesOf(json), json[Project(json)].entryPoint)[1]

BuiltProcess == aml.InstanceHierarchy[1].InternalElement[1]

\* jsonToAml has returned a document with a Process container
ProcessBuilt ==
    /\ pc \notin {"jsonToAml", "buildProcess", "jsonToAmlThrown"}
    /\ Project(json) # 0
    /\ Len(aml.InstanceHierarchy[1].InternalElement) > 0

\* the elements of an entry that get an element of their own, and its edges
Objects(en) ==
    SelectSeq(en.elementDataInformation,
              LAMBDA e : e.type \in OBJECT_TYPES \ {"fpb:SystemLimit"})

Edges(en) == SelectSeq(en.elementDataInformation, LAMBDA e : e.type \in CONNECTION_TYPES)

Leaving(en, id) == SelectSeq(Edges(en), LAMBDA e : e.sourceRef = id)

Entering(en, id) == SelectSeq(Edges(en), LAMBDA e : e.targetRef = id)

\* the ids of the edges in the order in which buildProcess comes to them:
\* element by element, the edges that leave it, then those that enter it
ProcessingOrder(en) ==
    Dedup(Concat(MapSeq(Objects(en), LAMBDA o :
        MapSeq(Leaving(en, o.id) \o Entering(en, o.id), LAMBDA e : e.id))))

\* both ends of the edge are elements with an element of their own
BothPorts(en, edge) ==
    /\ \E j \in DOMAIN Objects(en) : Objects(en)[j].id = edge.sourceRef
    /\ \E j \in DOMAIN Objects(en) : Objects(en)[j].id = edge.targetRef

EdgeById(en, id) == Edges(en)[FindIndex(Edges(en), LAMBDA e : e.id = id)]

\* the edges that get a link, in processing order
Linked(en) ==
    MapSeq(SelectSeq(ProcessingOrder(en), LAMBDA id : BothPorts(en, EdgeById(en, id))),
           LAMBDA id : EdgeById(en, id))

\* the element of the container p built for the element id of the entry
BuiltFor(en, p, id) ==
    ObjectChildren(p)[FindIndex(Objects(en), LAMBDA o : o.id = id)]

\* the ports of an edge: on its source after the ports of the edges that
\* leave the source before it, on its target after the ports of all edges
\* that leave the target and of the edges that enter it before
OutgoingPort(en, p, edge) ==
    BuiltFor(en, p, edge.sourceRef).ExternalInterface[
        FindIndex(Leaving(en, edge.sourceRef), LAMBDA e : e.id = edge.id)]

IncomingPort(en, p, edge) ==
    BuiltFor(en, p, edge.targetRef).ExternalInterface[
        Len(Leaving(en, edge.targetRef))
            + FindIndex(Entering(en, edge.targetRef), LAMBDA e : e.id = edge.id)]

\* C20: the Process container buildProcess returns has exactly one link for
\* each edge whose outgoing and incoming port were both created, side A being
\* the id of the outgoing port and side B that of the incoming port; the links
\* are named Link, Link1, Link2, ... without gaps in the order in which the
\* edges were processed, and an edge with a port missing has no link and
\* takes no number.
C20_OneLinkPerEdge ==
    ProcessBuilt =>
        LET en     == EntryPointEntry
            p      == BuiltProcess
            linked == Linked(en)
        IN  /\ Len(p.InternalLink) = Len(linked)
            /\ \A n \in DOMAIN linked :
                   /\ p.InternalLink[n].RefPartnerSideA = OutgoingPort(en, p, linked[n]).ID
                   /\ p.InternalLink[n].RefPartnerSideB = IncomingPort(en, p, linked[n]).ID
                   /\ p.InternalLink[n].Name = NumberedName("Link", n)

\* a container with the links Link and Link1 of the first and the third edge
\* buildProcess came to, the second having one port only
C20_Witness ==
    /\ ProcessBuilt
    /\ Len(BuiltProcess.InternalLink) = 2
    /\ BuiltProcess.InternalLink[2].Name = <<"Link", 1>>
    /\ LET order == ProcessingOrder(EntryPointEntry)
       IN  /\ Len(order) = 3
           /\ BothPorts(EntryPointEntry, EdgeById(EntryPointEntry, order[1]))
           /\ ~BothPorts(EntryPointEntry, EdgeById(EntryPointEntry, order[2]))
           /\ BothPorts(EntryPointEntry, EdgeById(EntryPointEntry, order[3]))

(***************************************************************************)
(* The visual block amlToJson decodes.                                     *)
(***************************************************************************)
\* a numeric slot is missing or has no value, or holds a number
NoValueOrNumber(slot) == slot.k \in {"none", "num"}

\* what the slot decodes as when a missing value is 0
ZeroIfMissing(slot) == IF slot.k = "num" THEN slot.v ELSE 0

\* the four slots of a visual block; without a position x and y are missing
SlotsOf(visual) ==
    LET missing == [k |-> "none", v |-> 0]
    IN  [x      |-> IF Len(visual.position) > 0 THEN visual.position[1].x ELSE missing,
         y      |-> IF Len(visual.position) > 0 THEN visual.position[1].y ELSE missing,
         width  |-> visual.width,
         height |-> visual.height]

\* the visual records of an entry for the element id
GeometryOf(en, id) ==
    SelectSeq(en.elementVisualInformation,
              LAMBDA v : v.id = id /\ ~HasField(v, "waypoints"))

\* C21: when amlToJson has returned, for every element with a visual block
\* whose x, y, width and height are each a number or missing, each of the
\* four decodes as its number or as 0, never as a non-number; the element has
\* no visual record exactly when all four are 0, and otherwise one record
\* with the four numbers.
C21_MissingValueDecodesAsZero ==
    Returned /\ ~StructuralError =>
        \A j \in DOMAIN ObjectChildren(RootIE) :
            LET ie == ObjectChildren(RootIE)[j]
            IN  Len(ie.Visual) > 0 =>
                LET slots   == SlotsOf(ie.Visual[1])
                    records == GeometryOf(RootEntry, Elements(RootEntry)[j].id)
                    allZero == \A f \in DOMAIN slots : ZeroIfMissing(slots[f]) = 0
                IN  (\A f \in DOMAIN slots : NoValueOrNumber(slots[f])) =>
                        /\ Len(records) = (IF allZero THEN 0 ELSE 1)
                        /\ \A r \in DOMAIN records : \A f \in DOMAIN slots :
                               records[r][f] = Num(ZeroIfMissing(slots[f]))

(***************************************************************************)
(* jsonToAml on documents whose decomposition is a tree.                   *)
(***************************************************************************)
\* Documents that satisfy the decomposition invariant and branch: the root
\* process 10 holds a Product (2) and the operators 1 and 5, joined by flows;
\* operator 1 may expand into process 11 of an operator (41) and a Product
\* (42), operator 5 into process 12 of one operator (51), and operator 41
\* into process 13 of one Product (61).
DecomposedDoc(left, right, deep, hasSL, flowSpec) ==
    LET sl(id) == IF hasSL THEN id ELSE 0
        flows == [n \in 1..Len(flowSpec) |->
                     GFlow("fpb:Flow", 20 + n, flowSpec[n][1], flowSpec[n][2])]
        root == GEntry(10, 0, sl(30),
                       << GElement("fpb:Product", 2, TRUE, 0),
                          GElement("fpb:ProcessOperator", 1, TRUE,
                                   IF left THEN 11 ELSE 0),
                          GElement("fpb:ProcessOperator", 5, TRUE,
                                   IF right THEN 12 ELSE 0) >>,
                       flows)
        p11  == GEntry(11, 1, sl(31),
                       << GElement("fpb:ProcessOperator", 41, TRUE,
                                   IF deep THEN 13 ELSE 0),
                          GElement("fpb:Product", 42, TRUE, 0) >>,
                       << GFlow("fpb:Flow", 23, 41, 42) >>)
        p12  == GEntry(12, 5, sl(32),
                       << GElement("fpb:ProcessOperator", 51, TRUE, 0) >>, << >>)
        p13  == GEntry(13, 41, sl(33),
                       << GElement("fpb:Product", 61, TRUE, 0) >>, << >>)
    IN  << GProject(10), root >>
        \o (IF right THEN <<p12>> ELSE << >>)
        \o (IF left /\ deep THEN <<p13>> ELSE << >>)
        \o (IF left THEN <<p11>> ELSE << >>)

DecomposedDocs ==
    { DecomposedDoc(left, right, deep, hasSL, flowSpec) :
        left \in BOOLEAN, right \in BOOLEAN, deep \in BOOLEAN, hasSL \in BOOLEAN,
        flowSpec \in { << >>, << <<2, 1>>, <<1, 5>> >> } }

\* documents whose decomposition is a chain of up to MaxElems processes
ChainDocs ==
    { GraphDoc(flowSpec, nest, hasSL, TRUE) :
        flowSpec \in { << >>, << <<"fpb:Flow", 2, 1>>, <<"fpb:Usage", 1, 4>> >> },
        nest \in 0..(MaxElems - 1), hasSL \in BOOLEAN }

\* jsonToAml alone, on a document that satisfies the decomposition invariant
InitJsonToAml ==
    /\ pc = "jsonToAml"
    /\ \/ json \in DecomposedDocs
       \/ json \in ChainDocs
       \/ json = HeaderlessDoc
    /\ build = << >>
    /\ uuid = 0
    /\ aml = << >>
    /\ stack = << >>
    /\ processEntries = << >>
    /\ idCounter = 0
    /\ ret = 0
    /\ out = << >>
    /\ res = [status |-> 0, body |-> << >>]
    /\ second = Idle

NextJsonToAml ==
    \/ JsonToAml
    \/ BuildObject
    \/ BuildNestedProcess
    \/ FinishBuild

\* jsonToAml is synchronous and runs to completion on the one thread of the
\* host: a step that can be taken is taken
SpecJsonToAml ==
    InitJsonToAml /\ [][NextJsonToAml]_vars /\ WF_vars(NextJsonToAml)

\* the process entries of the document with the id
ProcessEntriesWithId(doc, id) ==
    SelectSeq(doc, LAMBDA e : HasField(e, "process") /\ e.process.id = id)

\* the process an element expands into, 0 for none
DecomposedViewOf(obj) ==
    IF obj.type = "fpb:ProcessOperator" /\ HasField(obj, "decomposedView")
    THEN obj.decomposedView ELSE 0

\* the processes of the document reachable from the process id through
\* decomposedView links, each as often as it is reached, in at most fuel steps
RECURSIVE ReachableFrom(_, _, _)
ReachableFrom(doc, id, fuel) ==
    IF fuel = 0 \/ Len(ProcessEntriesWithId(doc, id)) = 0 THEN << >>
    ELSE <<id>> \o Concat(MapSeq(Objects(ProcessEntriesWithId(doc, id)[1]),
                                 LAMBDA obj : ReachableFrom(doc, DecomposedViewOf(obj),
                                                            fuel - 1)))

\* the number of processes on the longest chain of decomposedView links from
\* the process id
RECURSIVE DecompositionDepth(_, _, _)
DecompositionDepth(doc, id, fuel) ==
    IF fuel = 0 \/ Len(ProcessEntriesWithId(doc, id)) = 0 THEN 0
    ELSE LET below == { DecompositionDepth(doc, DecomposedViewOf(obj), fuel - 1) :
                          obj \in Range(Objects(ProcessEntriesWithId(doc, id)[1])) }
         IN  1 + (IF below = {} THEN 0
                  ELSE CHOOSE d \in below : \A e \in below : e <= d)

EntryPoint(doc) == IF Project(doc) = 0 THEN 0 ELSE doc[Project(doc)].entryPoint

\* the processes jsonToAml has to build and the depth of their nesting
ReachableProcesses == ReachableFrom(json, EntryPoint(json), Len(json))

Depth == DecompositionDepth(json, EntryPoint(json), Len(json))

\* the elements of a container that are not its SystemLimit
ElementsOf(container) ==
    SelectSeq(container.InternalElement,
              LAMBDA ie : ie.RefBaseSystemUnitPath # ELEMENT_TO_SUC["fpb:SystemLimit"])

\* the container is the Process container of the process id: one element for
\* each object of the process, in order, and inside the element of an
\* operator the Process container of the process it expands into and nothing
\* else, inside any other element nothing
RECURSIVE BuiltFrom(_, _, _)
BuiltFrom(container, doc, id) ==
    /\ Len(ProcessEntriesWithId(doc, id)) = 1
    /\ container.RefBaseSystemUnitPath = ELEMENT_TO_SUC["fpb:Process"]
    /\ LET objs == Objects(ProcessEntriesWithId(doc, id)[1])
           ies  == ElementsOf(container)
       IN  /\ Len(ies) = Len(objs)
           /\ \A j \in DOMAIN objs :
                /\ ies[j].RefBaseSystemUnitPath = ELEMENT_TO_SUC[objs[j].type]
                /\ IF Len(ProcessEntriesWithId(doc, DecomposedViewOf(objs[j]))) = 0
                   THEN ies[j].InternalElement = << >>
                   ELSE /\ Len(ies[j].InternalElement) = 1
                        /\ BuiltFrom(ies[j].InternalElement[1], doc,
                                     DecomposedViewOf(objs[j]))

\* the Process containers of an element and of the elements inside it
RECURSIVE ProcessContainers(_)
ProcessContainers(ie) ==
    (IF ie.RefBaseSystemUnitPath = ELEMENT_TO_SUC["fpb:Process"] THEN <<ie.ID>> ELSE << >>)
    \o Concat(MapSeq(ie.InternalElement, ProcessContainers))

\* the activations of buildProcess that have not returned are those of a
\* chain of decomposedView links, so no more than the decomposition depth
WithinDepth == Len(build) <= Depth

\* nothing of the result exists before jsonToAml returns, and nothing after
\* it threw
NothingPartial == pc # "built" => aml = << >>

\* the result holds one Process container for each reachable process, each
\* where its operator is
FullResult ==
    pc = "built" =>
        /\ Len(aml.InstanceHierarchy) = 1
        /\ Len(aml.InstanceHierarchy[1].InternalElement) = 1
        /\ BuiltFrom(BuiltProcess, json, EntryPoint(json))
        /\ Len(ProcessContainers(BuiltProcess)) = Len(ReachableProcesses)
        /\ aml = jsonToAml(json, 0)

\* C22: on a document that satisfies the decomposition invariant jsonToAml
\* terminates: it returns, or it throws when the document has no Project
\* record.  Its result has one Process container for each process reachable
\* from entryPoint through decomposedView links, each inside the element of
\* the operator it expands; the activations of buildProcess nest as deep as
\* the decomposition and no deeper; and no part of a result exists unless
\* jsonToAml returned.
C22_TerminatesBuildingEachProcessOnce ==
    /\ [](WithinDepth /\ NothingPartial /\ FullResult)
    /\ <>(Len(build) = Depth)
    /\ <>(IF Project(json) = 0 THEN pc = "jsonToAmlThrown" ELSE pc = "built")

\* a document of four processes, three deep, has been built
C22_Witness ==
    /\ pc = "built"
    /\ Depth = 3
    /\ Len(ReachableProcesses) = 4
    /\ FullResult
    /\ Len(ElementsOf(BuiltProcess)[2].InternalElement[1].InternalElement) > 0

(***************************************************************************)
(* Ports and links of the containers jsonToAml returns.                    *)
(***************************************************************************)
\* the Process containers of an element and of the elements inside it
RECURSIVE ContainersIn(_)
ContainersIn(ie) ==
    (IF ie.RefBaseSystemUnitPath = ELEMENT_TO_SUC["fpb:Process"] THEN <<ie>> ELSE << >>)
    \o Concat(MapSeq(ie.InternalElement, ContainersIn))

\* the ports on the child elements of a container
ChildPorts(container) ==
    UNION { Range(container.InternalElement[c].ExternalInterface) :
              c \in DOMAIN container.InternalElement }

\* the links of the container that reference the port
LinksAt(container, port) ==
    { n \in DOMAIN container.InternalLink :
        \/ container.InternalLink[n].RefPartnerSideA = port.ID
        \/ container.InternalLink[n].RefPartnerSideB = port.ID }

\* C23: in every Process container of the document jsonToAml returned, each
\* port on a child element is referenced by exactly one link of that
\* container, and each link of the container references two ports on its
\* child elements.
C23_EveryPortLinkedOnce ==
    ProcessBuilt =>
        \A c \in Range(ContainersIn(BuiltProcess)) :
            /\ \A port \in ChildPorts(c) : Cardinality(LinksAt(c, port)) = 1
            /\ \A n \in DOMAIN c.InternalLink :
                   /\ \E port \in ChildPorts(c) :
                          port.ID = c.InternalLink[n].RefPartnerSideA
                   /\ \E port \in ChildPorts(c) :
                          port.ID = c.InternalLink[n].RefPartnerSideB

(***************************************************************************)
(* The shape of the document amlToJson returns.                            *)
(***************************************************************************)
\* the Process container nested in an element, as a sequence of at most one
NestedProcessOf(ie) ==
    IF findByRefSUC(ie.InternalElement, SUC_Process) = 0 THEN << >>
    ELSE << ie.InternalElement[findByRefSUC(ie.InternalElement, SUC_Process)] >>

\* the Process containers of the tree below and including p, each after the
\* containers nested in its elements
RECURSIVE NestedFirst(_)
NestedFirst(p) ==
    Concat(MapSeq(ObjectChildren(p),
                  LAMBDA ie : IF Len(NestedProcessOf(ie)) = 0 THEN << >>
                              ELSE NestedFirst(NestedProcessOf(ie)[1])))
    \o << p >>

\* the entry has one element for each object child of the container, of its
\* kind, and with the decomposedView exactly where a Process is nested
ParsedFrom(en, p) ==
    /\ Len(Elements(en)) = Len(ObjectChildren(p))
    /\ \A j \in DOMAIN Elements(en) :
           /\ Elements(en)[j].type =
                  SUC_TO_ELEMENT[ObjectChildren(p)[j].RefBaseSystemUnitPath]
           /\ HasField(Elements(en)[j], "decomposedView")
                  <=> Len(NestedProcessOf(ObjectChildren(p)[j])) > 0

\* the decomposedView ids of the elements of an entry, in order
DecomposedViews(en) ==
    MapSeq(SelectSeq(en.elementDataInformation,
                     LAMBDA e : HasField(e, "decomposedView")),
           LAMBDA e : e.decomposedView)

IsProject(r) == HasField(r, "type") /\ r.type = "fpb:Project"

\* C24: in the document amlToJson returns the first record is the Project
\* header and the only one; its entryPoint is the id of exactly one process
\* entry, the one parsed from the top-level Process container, whose
\* isDecomposedProcessOperator is null and which is the last record; the
\* entry of a nested process stands before the entry of the process whose
\* element holds it; and consistsOfProcesses of each entry lists exactly the
\* decomposedView ids of the entry's own elements.
C24_HeaderThenEntriesNestedFirst ==
    Returned =>
        LET order == NestedFirst(RootIE)
        IN  /\ IsProject(out[1])
            /\ \A k \in DOMAIN OutEntries :
                   ~IsProject(OutEntries[k]) /\ HasField(OutEntries[k], "process")
            /\ Cardinality(EntriesWithId(out[1].entryPoint)) = 1
            /\ RootEntry.process.id = out[1].entryPoint
            /\ RootEntry.process.isDecomposedProcessOperator = 0
            /\ Len(OutEntries) = Len(order)
            /\ \A k \in DOMAIN OutEntries :
                   /\ ParsedFrom(OutEntries[k], order[k])
                   /\ OutEntries[k].process.consistsOfProcesses
                          = DecomposedViews(OutEntries[k])
                   /\ k < Len(OutEntries) =>
                          /\ OutEntries[k].process.isDecomposedProcessOperator # 0
                          /\ \E m \in (k + 1)..Len(OutEntries) :
                             \E j \in DOMAIN ObjectChildren(order[m]) :
                                 /\ NestedProcessOf(ObjectChildren(order[m])[j])
                                        = << order[k] >>
                                 /\ Elements(OutEntries[m])[j].decomposedView
                                        = OutEntries[k].process.id

\* a returned document of three entries: a process nested in a process
\* nested in the top-level process
C24_Witness ==
    /\ Returned
    /\ Len(OutEntries) = 3
    /\ IsProject(out[1])
    /\ Len(OutEntries[2].process.consistsOfProcesses) = 1
    /\ Len(RootEntry.process.consistsOfProcesses) = 1
    /\ OutEntries[1].process.isDecomposedProcessOperator
           = OutEntries[2].process.consistsOfProcesses[1]

====
